---- MODULE Spec2Model ----
(***************************************************************************)
(* A model of nrl, the terminal line editor (struct nrl::handle and the    *)
(* anonymous-namespace helpers of its implementation file).                *)
(*                                                                         *)
(* The handle object is the record s; its fields carry the names of the    *)
(* C++ members.  Byte offsets are 0-based as in the source: the byte at    *)
(* C offset o of a buffer b is b[o + 1].                                   *)
(***************************************************************************)
EXTENDS Integers, Sequences, FiniteSets, TLC

VARIABLES
  s,        \* the nrl::handle object
  epoll,    \* descriptors registered on s.epfd: a subset of {"tkfd", "sigfd"}
  sigmask,  \* TRUE iff SIGWINCH is blocked in the process signal mask
  nsigfd,   \* number of signalfd descriptors the process holds open
  nonblock, \* O_NONBLOCK flag of the terminal descriptor
  reading,  \* TRUE while the thread is inside handle::read() (the_loop)
  proc,     \* "running", or "aborted" after a failed assert / a crash
  out,      \* what the last call wrote to the terminal, as a sequence of tokens
  result,   \* what the last call returned to the caller
  script    \* 0: no scenario observed; n > 0: the keys of this edit so far are
            \* the first n - 1 keys of the observed scenario; -1: they are not

vars == <<s, epoll, sigmask, nsigfd, nonblock, reading, proc, out, result, script>>

-----------------------------------------------------------------------------
(* Bounds of the model.                                                    *)

\* Most codepoints typed into one edit (longer buffers are not explored).
MaxLen == 2

\* Most keys the decoder hands out for one readiness event.
MaxBatch == 2

\* Most edits one behaviour opens (each opens one more signalfd).
MaxEdits == 2

\* The members of type unsigned are 32 bits wide and wrap around.  The model keeps
\* such a value v as the integer of -2^31 .. 2^31 - 1 that is congruent to v modulo
\* 2^32 (4294967295 is kept as -1): sums and differences are then the integer
\* ones, and ULess is the order of the unsigned values.
ULess(a, b) == IF (a < 0) = (b < 0) THEN a < b ELSE b < 0

UMin(a, b) == IF ULess(a, b) THEN a ELSE b

-----------------------------------------------------------------------------
(* UTF-8 primitives (libunistring's u8_* functions as the source uses them) *)

\* A continuation byte, 10xxxxxx.
IsCont(b) == b >= 128 /\ b < 192

\* u8_uctomb: the UTF-8 encoding of a codepoint.
U8Uctomb(uc) ==
  IF uc < 128 THEN <<uc>>
  ELSE IF uc < 2048 THEN <<192 + (uc \div 64), 128 + (uc % 64)>>
  ELSE IF uc < 65536
    THEN <<224 + (uc \div 4096), 128 + ((uc \div 64) % 64), 128 + (uc % 64)>>
  ELSE <<240 + (uc \div 262144), 128 + ((uc \div 4096) % 64),
         128 + ((uc \div 64) % 64), 128 + (uc % 64)>>

\* Length a well-formed character starting with lead byte c must have; 0 when c
\* cannot start a character.
LeadLen(c) ==
  IF c < 128 THEN 1
  ELSE IF c >= 194 /\ c < 224 THEN 2
  ELSE IF c >= 224 /\ c < 240 THEN 3
  ELSE IF c >= 240 /\ c <= 244 THEN 4
  ELSE 0

\* The second byte c2 is a legal continuation of lead byte c.
SecondOk(c, c2) ==
  /\ IsCont(c2)
  /\ (c = 224 => c2 >= 160)
  /\ (c = 237 => c2 < 160)
  /\ (c = 240 => c2 >= 144)
  /\ (c = 244 => c2 < 144)

\* u8_mbtoucr(&uc, b + o, Len(b) - o), for o < Len(b): the length of the character
\* at o, -1 when the bytes there are invalid, -2 when they are an incomplete
\* character.  uc is 0xfffd exactly when the result is negative.
U8Mbtoucr(b, o) ==
  LET n == Len(b) - o
      c == b[o + 1]
      need == LeadLen(c)
  IN IF need = 0 THEN -1
     ELSE IF need = 1 THEN 1
     ELSE IF n >= 2 /\ ~SecondOk(c, b[o + 2]) THEN -1
     ELSE IF need >= 3 /\ n >= 3 /\ ~IsCont(b[o + 3]) THEN -1
     ELSE IF need = 4 /\ n >= 4 /\ ~IsCont(b[o + 4]) THEN -1
     ELSE IF n < need THEN -2
     ELSE need

\* u8_mbtouc(&uc, b + o, n) on bytes u8_mbtoucr rejected: the number of bytes
\* skipped as one replacement character (the maximal ill-formed prefix).
U8MbtoucSkip(b, o, n) ==
  LET c == b[o + 1]
      need == LeadLen(c)
  IN IF need <= 1 \/ n < 2 \/ ~SecondOk(c, b[o + 2]) THEN 1
     ELSE IF need = 2 \/ n < 3 \/ ~IsCont(b[o + 3]) THEN 2
     ELSE IF need = 3 \/ n < 4 \/ ~IsCont(b[o + 4]) THEN 3
     ELSE 4

\* u8_mbsnlen(b + from, n): the number of characters in n bytes, every ill-formed
\* stretch counting as one character.
RECURSIVE U8Mbsnlen(_, _, _)
U8Mbsnlen(b, from, n) ==
  IF n <= 0 THEN 0
  ELSE LET sub == SubSeq(b, 1, from + n)
           cnt == U8Mbtoucr(sub, from)
       IN IF cnt = -2 THEN 1
          ELSE LET step == IF cnt < 0 THEN U8MbtoucSkip(sub, from, n) ELSE cnt
               IN 1 + U8Mbsnlen(b, from + step, n - step)

\* u8_prev(&uc, b + o, b): the offset of the character that ends at o, or -1
\* (NULL) when o = 0 or the bytes before o are no well-formed character.
U8Prev(b, o) ==
  IF o = 0 THEN -1
  ELSE IF b[o] < 128 THEN o - 1
  ELSE IF ~IsCont(b[o]) \/ o < 2 THEN -1
  ELSE IF b[o - 1] >= 194 /\ b[o - 1] < 224 THEN o - 2
  ELSE IF ~IsCont(b[o - 1]) \/ o < 3 THEN -1
  ELSE IF LeadLen(b[o - 2]) = 3 /\ SecondOk(b[o - 2], b[o - 1]) THEN o - 3
  ELSE IF ~IsCont(b[o - 2]) \/ o < 4 THEN -1
  ELSE IF LeadLen(b[o - 3]) = 4 /\ SecondOk(b[o - 3], b[o - 2]) THEN o - 4
  ELSE -1

-----------------------------------------------------------------------------
(* Terminal output.  A call's output is a sequence of tokens; op names the  *)
(* byte string, row/col are the arguments of a cursor-position sequence and *)
(* data the raw bytes of a write.                                           *)

Tok(op) == [op |-> op, row |-> 0, col |-> 0, data |-> <<>>]

\* write(fd, p, n) of buffer bytes.
Bytes(data) == [op |-> "bytes", row |-> 0, col |-> 0, data |-> data]

\* move_to_buf: "\e[%u;%uH" with initial_row + y and initial_col + x.
move_to_buf(h, x, y) ==
  [op |-> "CUP", row |-> (h.initial_row + y), col |-> (h.initial_col + x),
   data |-> <<>>]

\* A working state of a handler: the handle h, the output so far and whether the
\* process still runs.
Emit(w, toks) == [w EXCEPT !.out = @ \o toks]

Abort(w) == [w EXCEPT !.proc = "aborted"]

\* move_to: one write of the cursor-position sequence.
move_to(w, x, y) == Emit(w, <<move_to_buf(w.s, x, y)>>)

\* The bytes of b from C offset o on (empty when o is at or past the end).
From(b, o) == IF o >= Len(b) THEN <<>> ELSE SubSeq(b, o + 1, Len(b))

\* vector::erase(begin + from, begin + to) for 0 <= from <= to <= Len(b).
Erase(b, from, to) == SubSeq(b, 1, from) \o From(b, to)

\* vector::insert(begin + at, bytes) for at <= Len(b).
Insert(b, at, bytes) == SubSeq(b, 1, at) \o bytes \o From(b, at)

-----------------------------------------------------------------------------
(* Screen geometry                                                          *)

\* offset_after_n_chars: from offset, step over at most n characters by their lead
\* bytes.  ok is FALSE when one of the two asserts fails (a byte that cannot start
\* a character, or a character cut off by the end of the buffer).
RECURSIVE OffsetLoop(_, _, _, _)
OffsetLoop(b, n, offset, cnt) ==
  IF ~(offset < Len(b) /\ ULess(cnt, n)) THEN [off |-> offset, cnt |-> cnt, ok |-> TRUE]
  ELSE LET c == b[offset + 1]
           next == offset + (IF c < 128 THEN 1 ELSE IF c < 224 THEN 2
                             ELSE IF c < 240 THEN 3 ELSE 4)
       IN IF ~(c < 128 \/ (~IsCont(c) /\ c < 248)) \/ next > Len(b)
            THEN [off |-> next, cnt |-> cnt, ok |-> FALSE]
            ELSE OffsetLoop(b, n, next, cnt + 1)

offset_after_n_chars(h, n, offset) == OffsetLoop(h.buffer, n, offset, 0)

\* vector<unsigned>::resize(n): cut, or fill up with zeros.
Resize(lo, n) ==
  IF n <= Len(lo) THEN SubSeq(lo, 1, n)
  ELSE lo \o [i \in 1 .. (n - Len(lo)) |-> 0]

RECURSIVE RecomputeLoop(_, _, _, _)
RecomputeLoop(h, lo, o, avail) ==
  IF ~(o < Len(h.buffer)) THEN [lo |-> lo, ok |-> TRUE]
  ELSE LET r == offset_after_n_chars(h, avail, o)
       IN IF ~r.ok THEN [lo |-> lo, ok |-> FALSE]
          ELSE IF ULess(r.cnt, avail) THEN [lo |-> lo, ok |-> TRUE]
          ELSE RecomputeLoop(h, Append(lo, r.off), r.off, h.term_cols)

\* A variant of recompute_line_offset that drops a last row left without
\* characters; C19 must tell it from the code.
recompute_line_offset_trims(h, r) ==
  LET avail == (h.term_cols - (IF r = 0 THEN h.prompt_len ELSE 0))
      lo == Resize(h.line_offset, r + 1)
      res == RecomputeLoop(h, lo, lo[r + 1], avail)
      n == Len(res.lo)
  IN IF res.ok /\ n > 1 /\ res.lo[n] = Len(h.buffer)
       THEN [lo |-> SubSeq(res.lo, 1, n - 1), ok |-> TRUE]
       ELSE res

\* recompute_line_offset(s, r): the row starts from row r on.
recompute_line_offset(h, r) ==
  LET avail == (h.term_cols - (IF r = 0 THEN h.prompt_len ELSE 0))
      lo == Resize(h.line_offset, r + 1)
  IN RecomputeLoop(h, lo, lo[r + 1], avail)

-----------------------------------------------------------------------------
(* Edit actions.  Each callback maps a working state to the set of working  *)
(* states it can end in: one state where the code is deterministic, several *)
(* where it reads or moves bytes outside the vector (undefined behaviour).  *)

\* The u8_prev call of cb_backward_char.  With offset inside the buffer it is
\* U8Prev.  With offset past the end (a state cb_unix_line_discard leaves) it
\* reads bytes behind the vector's end: whatever the storage holds there decides
\* between a step back by one to four bytes and NULL.
PrevOffsets(h) ==
  IF h.offset <= Len(h.buffer) THEN {U8Prev(h.buffer, h.offset)}
  ELSE {-1} \cup {h.offset - d : d \in 1 .. (IF h.offset < 4 THEN h.offset ELSE 4)}

cb_beginning_of_line(w) ==
  IF w.s.offset # 0
    THEN LET h == [w.s EXCEPT !.pos_x = w.s.prompt_len, !.pos_y = 0, !.offset = 0]
         IN {move_to([w EXCEPT !.s = h], h.pos_x, h.pos_y)}
    ELSE {w}

\* u8_strnlen(p, n): the number of bytes (units) before the first NUL among n.
\* The buffer never holds a NUL byte.
U8Strnlen(b, from, n) == n

cb_end_of_line(w) ==
  LET h == w.s
      y == Len(h.line_offset) - 1
  IN IF h.offset = Len(h.buffer) THEN {w}
     ELSE IF h.line_offset[y + 1] > Len(h.buffer)
       \* size() - line_offset[pos_y] wraps: u8_strnlen runs past the vector's end.
       THEN {Abort(w)} \cup
            {move_to([w EXCEPT !.s = [h EXCEPT !.pos_y = y, !.pos_x = x, !.requested_pos_x = x,
                                               !.offset = Len(h.buffer)]], x, y)
               : x \in {(IF y = 0 THEN h.prompt_len ELSE 0) + k : k \in 0 .. 1}}
       ELSE LET x == (IF y = 0 THEN h.prompt_len ELSE 0)
                       + U8Strnlen(h.buffer, h.line_offset[y + 1], Len(h.buffer) - h.line_offset[y + 1])
                h2 == [h EXCEPT !.pos_y = y, !.pos_x = x, !.requested_pos_x = x,
                                !.offset = Len(h.buffer)]
            IN {move_to([w EXCEPT !.s = h2], x, y)}

cb_insert(w) == {[w EXCEPT !.s.insert = ~w.s.insert]}

\* The cursor part of cb_backward_char once the previous offset p is known.
BackwardTo(w, p) ==
  LET h == w.s
  IN IF p < 0 THEN Abort(w)                                  \* assert(prevp != nullptr)
     ELSE IF h.pos_x = 0 /\ h.multiline /\ h.pos_y = 0
       THEN Abort([w EXCEPT !.s.offset = p])                 \* assert(s.pos_y > 0)
     ELSE LET x == IF h.pos_x = 0
                     THEN (IF h.multiline THEN (h.term_cols - 1) ELSE 0)
                     ELSE h.pos_x - 1
              y == IF h.pos_x = 0 /\ h.multiline THEN h.pos_y - 1 ELSE h.pos_y
              h2 == [h EXCEPT !.offset = p, !.pos_x = x, !.pos_y = y, !.requested_pos_x = x]
          IN move_to([w EXCEPT !.s = h2], x, y)

cb_backward_char(w) ==
  IF w.s.offset > 0 THEN {BackwardTo(w, p) : p \in PrevOffsets(w.s)}
  ELSE {w}

cb_forward_char(w) ==
  LET h == w.s
  IN IF ~(h.offset < Len(h.buffer)) THEN {w}
     ELSE LET n == U8Mbtoucr(h.buffer, h.offset)
          IN IF n < 0 THEN {Abort(w)}                        \* assert(uc != 0xfffd)
             ELSE IF h.pos_x + 1 = h.term_cols /\ h.multiline
                     /\ ~(h.pos_y < Len(h.line_offset))
               THEN {Abort([w EXCEPT !.s.offset = h.offset + n])}
             ELSE LET wrap == h.pos_x + 1 = h.term_cols
                      x == IF wrap THEN (IF h.multiline THEN 0 ELSE h.pos_x) ELSE h.pos_x + 1
                      y == IF wrap /\ h.multiline THEN h.pos_y + 1 ELSE h.pos_y
                      h2 == [h EXCEPT !.offset = h.offset + n, !.pos_x = x, !.pos_y = y,
                                      !.requested_pos_x = x]
                  IN {move_to([w EXCEPT !.s = h2], x, y)}

\* s.line_offset[y] as cb_previous_screen_line reads it.  With y past the vector's
\* end (single-line mode counts rows the vector does not have) the read is out of
\* bounds: a checking build dies (-1 here), any other reads whatever the heap
\* holds there: an offset inside the buffer (0 stands for these) or one past
\* its end.
LineOffsetReads(h, y) ==
  IF y < Len(h.line_offset) THEN {h.line_offset[y + 1]}
  ELSE {-1, 0, Len(h.buffer) + 1}

cb_previous_screen_line(w) ==
  LET h == w.s
      y == h.pos_y - 1
      n == h.requested_pos_x - (IF y = 0 THEN h.prompt_len ELSE 0)
      To(start) ==
        LET r == offset_after_n_chars(h, n, start)
            x == r.cnt + (IF y = 0 THEN h.prompt_len ELSE 0)
            h2 == [h EXCEPT !.pos_y = y, !.offset = r.off, !.pos_x = x]
        IN IF start < 0 \/ ~r.ok THEN Abort([w EXCEPT !.s.pos_y = y])
           ELSE move_to([w EXCEPT !.s = h2], x, y)
  IN IF h.pos_y > 0 /\ (h.pos_y > 1 \/ h.requested_pos_x >= h.prompt_len)
       THEN {To(start) : start \in LineOffsetReads(h, y)}
       ELSE {w}

cb_next_screen_line(w) ==
  LET h == w.s
  IN IF h.pos_y + 1 < Len(h.line_offset)
       THEN LET y == h.pos_y + 1
                r == offset_after_n_chars(h, h.pos_x, h.line_offset[y + 1])
                h2 == [h EXCEPT !.pos_y = y, !.requested_pos_x = h.pos_x, !.offset = r.off,
                                !.pos_x = r.cnt]
            IN IF ~r.ok THEN {Abort([w EXCEPT !.s.pos_y = y, !.s.requested_pos_x = h.pos_x])}
               ELSE {move_to([w EXCEPT !.s = h2], r.cnt, y)}
       ELSE {w}

\* vector::erase(begin + from, begin + to) as the callbacks call it.  Inside the
\* vector it is Erase.  With to past the end the call is undefined: the library
\* moves nothing and sets the end to begin + from + (size - to), which cuts the
\* vector to a prefix or, when that is negative, leaves a vector the next read
\* crashes on.  ok = FALSE stands for the crash.
EraseOutcomes(b, from, to) ==
  IF to <= Len(b) THEN {[b |-> Erase(b, from, to), ok |-> TRUE]}
  ELSE {[b |-> b, ok |-> FALSE]} \cup
       (IF Len(b) - (to - from) >= 0
          THEN {[b |-> SubSeq(b, 1, Len(b) - (to - from)), ok |-> TRUE]}
          ELSE {})

\* The writev that ends cb_backspace and cb_delete: the buffer from offset on, one
\* space, the cursor position.  With offset past the end the first iov_len wraps
\* and the kernel refuses the whole call.
WritevTail(w) ==
  IF w.s.offset > Len(w.s.buffer) THEN w
  ELSE Emit(w, <<Bytes(From(w.s.buffer, w.s.offset)), Tok("SP"),
                 move_to_buf(w.s, w.s.pos_x, w.s.pos_y)>>)

\* What cb_backspace and cb_delete do once the bytes are erased.
AfterErase(w, b) ==
  LET h == [w.s EXCEPT !.buffer = b, !.nchars = (w.s.nchars - 1)]
      r == recompute_line_offset(h, h.pos_y)
      h2 == [h EXCEPT !.line_offset = r.lo, !.requested_pos_x = h.pos_x]
  IN IF ~r.ok THEN Abort([w EXCEPT !.s = h])
     ELSE WritevTail([w EXCEPT !.s = h2])

cb_backspace(w) ==
  IF w.s.offset > 0
    THEN UNION {IF w1.proc # "running" THEN {w1}
                ELSE {IF e.ok THEN AfterErase(w1, e.b) ELSE Abort(w1)
                        : e \in EraseOutcomes(w1.s.buffer, w1.s.offset, w.s.offset)}
                  : w1 \in cb_backward_char(w)}
    ELSE {w}

cb_delete(w) ==
  LET h == w.s
  IN IF h.offset < Len(h.buffer)
       THEN LET n == U8Mbtoucr(h.buffer, h.offset)
            IN IF n <= 0 THEN {Abort(w)}                     \* assert(n > 0)
               ELSE {AfterErase(w, Erase(h.buffer, h.offset, h.offset + n))}
       ELSE {w}

\* The codepoint u8_prev and u8_next store for the character at offset o of b:
\* 0xfffd when the bytes there are no well-formed character.
U8Char(b, o) ==
  LET n == IF o < 0 \/ o >= Len(b) THEN -1 ELSE U8Mbtoucr(b, o)
      c == b[o + 1]
  IN IF n < 1 THEN 65533
     ELSE IF n = 1 THEN c
     ELSE IF n = 2 THEN (c - 192) * 64 + (b[o + 2] - 128)
     ELSE IF n = 3 THEN (c - 224) * 4096 + (b[o + 2] - 128) * 64 + (b[o + 3] - 128)
     ELSE (c - 240) * 262144 + (b[o + 2] - 128) * 4096 + (b[o + 3] - 128) * 64
            + (b[o + 4] - 128)

\* uc_is_general_category(uc, LETTER | NUMBER) for the codepoints below U+0100.
\* The higher codepoints the model types (the euro sign, U+1F600) and 0xfffd
\* are symbols.
IsWord(uc) ==
  \/ uc \in 48 .. 57 \/ uc \in 65 .. 90 \/ uc \in 97 .. 122
  \/ uc \in {170, 178, 179, 181, 185, 186, 188, 189, 190}
  \/ (uc \in 192 .. 255 /\ uc \notin {215, 247})

\* The scan of cb_backward_word: p is the start of a character, uc1 its
\* codepoint.  The result is the set of offsets the scan can stop at, -1 for
\* NULL.  u8_prev leaves uc2 unwritten when it returns NULL: the test then
\* reads a letter or something else.
RECURSIVE BackwardWordLoop(_, _, _)
BackwardWordLoop(b, p, uc1) ==
  IF p <= 0 THEN {p}
  ELSE LET q == U8Prev(b, p)
       IN UNION {IF IsWord(uc1) /\ ~IsWord(uc2) THEN {p}
                 ELSE BackwardWordLoop(b, q, uc2)
                   : uc2 \in (IF q < 0 THEN {97, 32} ELSE {U8Char(b, q)})}

\* The row search of cb_backward_word from row y: pairs <<row, row start>>, or
\* <<-1, 0>> where assert(s.pos_y > 0) fails or a checked read is out of bounds.
RECURSIVE BackwardWordRows(_, _, _)
BackwardWordRows(h, y, offset) ==
  UNION {IF start < 0 THEN {<<-1, 0>>}
         ELSE IF start > offset
           THEN (IF y = 0 THEN {<<-1, 0>>} ELSE BackwardWordRows(h, y - 1, offset))
         ELSE {<<y, start>>}
           : start \in LineOffsetReads(h, y)}

\* cb_backward_word.  A first u8_prev that reads behind the vector's end sees
\* a letter or something else; a scan that ends in NULL makes offset the
\* difference of two unrelated pointers and u8_mbsnlen runs out of the heap.
cb_backward_word(w) ==
  LET h == w.s
      b == h.buffer
      Stop(p0) ==
        IF p0 < 0 THEN {-1}
        ELSE UNION {BackwardWordLoop(b, p0, uc1)
                : uc1 \in (IF p0 < Len(b) THEN {U8Char(b, p0)} ELSE {97, 32})}
      At(p) ==
        IF p < 0 THEN {Abort(w)}
        ELSE {IF yr[1] < 0 THEN Abort([w EXCEPT !.s.offset = p])
              ELSE LET x == U8Mbsnlen(b, yr[2], p - yr[2])
                              + (IF yr[1] = 0 THEN h.prompt_len ELSE 0)
                       h2 == [h EXCEPT !.offset = p, !.pos_y = yr[1], !.pos_x = x,
                                       !.requested_pos_x = x]
                   IN move_to([w EXCEPT !.s = h2], x, yr[1])
                : yr \in BackwardWordRows(h, h.pos_y, p)}
  IN IF h.offset > 0
       THEN UNION {At(p) : p \in UNION {Stop(p0) : p0 \in PrevOffsets(h)}}
       ELSE {w}

\* The scan of cb_forward_word: p and q are the starts of two characters in
\* a row, uc1 is the codepoint at p.  The result is the set of offsets the scan
\* can stop at, -1 where it calls u8_next with NULL.  u8_next returns NULL for
\* bytes that are no character; for a character the end of the vector cuts off
\* it reads behind the end and may as well find a character there.
RECURSIVE ForwardWordLoop(_, _, _, _)
ForwardWordLoop(b, p, q, uc1) ==
  IF q > Len(b) THEN {p}
  ELSE IF q = Len(b) THEN {q}
  ELSE LET n == U8Mbtoucr(b, q)
       IN IF n < 1
            THEN (IF IsWord(uc1) THEN {q} ELSE {-1}) \cup (IF n = -2 THEN {q} ELSE {})
          ELSE IF IsWord(uc1) /\ ~IsWord(U8Char(b, q)) THEN {q}
          ELSE ForwardWordLoop(b, q, q + n, U8Char(b, q))

\* The row search of cb_forward_word from row y.
RECURSIVE ForwardWordRow(_, _, _)
ForwardWordRow(h, y, offset) ==
  IF y + 1 < Len(h.line_offset) /\ ~ULess(offset, h.line_offset[y + 2])
    THEN ForwardWordRow(h, y + 1, offset)
    ELSE y

\* cb_forward_word.  Nothing happens unless offset + 1 < size.  The first
\* u8_next steps over the character at offset, the second one replaces uc1 by
\* the codepoint of the character after it.  A row start behind the new offset
\* (single-line mode after a scroll) makes the length given to u8_mbsnlen wrap
\* around: the call runs over the heap and dies, or comes back with some count.
cb_forward_word(w) ==
  LET h == w.s
      b == h.buffer
      n0 == U8Mbtoucr(b, h.offset)
      p0 == h.offset + n0
      n1 == U8Mbtoucr(b, p0)
      Stops == IF n0 < 1 THEN {-1}
               ELSE IF ~(p0 < Len(b)) THEN {p0}
               ELSE IF n1 < 1 THEN {-1} \cup (IF n1 = -2 THEN {p0} ELSE {})
               ELSE ForwardWordLoop(b, p0, p0 + n1, U8Char(b, p0))
      At(p) ==
        IF p < 0 THEN {Abort(w)}
        ELSE LET y == ForwardWordRow(h, h.pos_y, p)
                 To(x) == LET h2 == [h EXCEPT !.offset = p, !.pos_y = y, !.pos_x = x,
                                              !.requested_pos_x = x]
                          IN move_to([w EXCEPT !.s = h2], x, y)
             IN UNION {IF start < 0 THEN {Abort([w EXCEPT !.s.offset = p, !.s.pos_y = y])}
                       ELSE IF start > p
                         THEN {Abort([w EXCEPT !.s.offset = p, !.s.pos_y = y]), To(0)}
                       ELSE {To(U8Mbsnlen(b, start, p - start)
                                  + (IF y = 0 THEN h.prompt_len ELSE 0))}
                         : start \in LineOffsetReads(h, y)}
  IN IF h.offset >= 0 /\ h.offset + 1 < Len(b)
       THEN UNION {At(p) : p \in Stops}
       ELSE {w}

\* n copies of "\n\e[K".
ClearRows(n) == [i \in 1 .. n |-> Tok("NL_EL")]

Lost(old_nlines, lo) == IF old_nlines > Len(lo) THEN old_nlines - Len(lo) ELSE 0

UnixLineDiscardOn(w, b) ==
  LET h == [w.s EXCEPT !.buffer = b, !.pos_x = w.s.prompt_len, !.pos_y = 0]
      r == recompute_line_offset(h, 0)
      h2 == [h EXCEPT !.line_offset = r.lo]
      mov == move_to_buf(h2, h2.pos_x, h2.pos_y)
  IN IF ~r.ok THEN Abort([w EXCEPT !.s = h])
     ELSE Emit([w EXCEPT !.s = h2],
               <<mov, Bytes(b), Tok("EL")>> \o ClearRows(Lost(Len(w.s.line_offset), r.lo))
                 \o <<mov>>)

cb_unix_line_discard(w) ==
  IF w.s.offset > 0
    THEN {IF e.ok THEN UnixLineDiscardOn(w, e.b) ELSE Abort(w)
            : e \in EraseOutcomes(w.s.buffer, 0, w.s.offset)}
    ELSE {w}

cb_kill_line(w) ==
  LET h == w.s
  IN IF h.offset < Len(h.buffer)
       THEN LET h1 == [h EXCEPT !.buffer = SubSeq(h.buffer, 1, h.offset)]
                r == recompute_line_offset(h1, h1.pos_y)
                h2 == [h1 EXCEPT !.line_offset = r.lo]
                lost == Lost(Len(h.line_offset), r.lo)
            IN IF ~r.ok THEN {Abort([w EXCEPT !.s = h1])}
               ELSE {Emit([w EXCEPT !.s = h2],
                          <<Tok("EL")>> \o ClearRows(lost) \o
                          (IF lost > 0 THEN <<move_to_buf(h2, h2.pos_x, h2.pos_y)>> ELSE <<>>))}
       ELSE {w}

\* show_empty_message: colour on, the hint, colour off, back to the cursor.
show_empty_message(w) ==
  Emit(w, <<Tok("SGR_hint"), Tok("hint"), Tok("SGR_text"),
            move_to_buf(w.s, w.s.pos_x, w.s.pos_y)>>)

-----------------------------------------------------------------------------
(* Keys and the dispatch table                                              *)

\* A decoded key (TermKeyKey): codepoint is read for type "unicode", sym for type
\* "keysym"; the other one is 0 / "".
UnicodeKey(mod, uc) == [type |-> "unicode", mod |-> mod, codepoint |-> uc, sym |-> ""]
SymKey(mod, sym) == [type |-> "keysym", mod |-> mod, codepoint |-> 0, sym |-> sym]

\* The character constants of the source.
Ascii == [a |-> 97, b |-> 98, c |-> 99, d |-> 100, e |-> 101, f |-> 102, h |-> 104,
          k |-> 107, l |-> 108, o |-> 111, u |-> 117, x |-> 120, C |-> 67, D |-> 68]
Chr(c) == Ascii[c]

\* key_map: the callback bound to (sym, mod, code), "" when there is none.
key_map(sym, mod, codepoint, name) ==
  IF ~sym /\ mod = {"CTRL"} /\ codepoint = Chr("a") THEN "cb_beginning_of_line"
  ELSE IF sym /\ mod = {} /\ name = "HOME" THEN "cb_beginning_of_line"
  ELSE IF ~sym /\ mod = {"CTRL"} /\ codepoint = Chr("e") THEN "cb_end_of_line"
  ELSE IF sym /\ mod = {} /\ name = "END" THEN "cb_end_of_line"
  ELSE IF sym /\ mod = {} /\ name = "INSERT" THEN "cb_insert"
  ELSE IF sym /\ mod = {} /\ name = "ENTER" THEN "cb_enter"
  ELSE IF sym /\ mod = {} /\ name = "LEFT" THEN "cb_backward_char"
  ELSE IF sym /\ mod = {} /\ name = "RIGHT" THEN "cb_forward_char"
  ELSE IF sym /\ mod = {} /\ name = "UP" THEN "cb_previous_screen_line"
  ELSE IF sym /\ mod = {} /\ name = "DOWN" THEN "cb_next_screen_line"
  ELSE IF sym /\ mod = {} /\ name = "BACKSPACE" THEN "cb_backspace"
  ELSE IF sym /\ mod = {} /\ name = "DELETE" THEN "cb_delete"
  ELSE IF ~sym /\ mod = {"ALT"} /\ codepoint = Chr("b") THEN "cb_backward_word"
  ELSE IF ~sym /\ mod = {"ALT"} /\ codepoint = Chr("f") THEN "cb_forward_word"
  ELSE IF ~sym /\ mod = {"CTRL"} /\ codepoint = Chr("u") THEN "cb_unix_line_discard"
  ELSE IF ~sym /\ mod = {"CTRL"} /\ codepoint = Chr("k") THEN "cb_kill_line"
  ELSE ""

\* A cb_enter that returns false like the other callbacks.
ReturnsFalse(cb) == FALSE

\* What the named callback returns: true from cb_enter, false from the others.
Returns(cb) == cb = "cb_enter"

\* cb->second(s): the outcomes of the named callback, each with its return value.
Call(cb, w) ==
  LET ws == CASE cb = "cb_beginning_of_line" -> cb_beginning_of_line(w)
              [] cb = "cb_end_of_line" -> cb_end_of_line(w)
              [] cb = "cb_insert" -> cb_insert(w)
              [] cb = "cb_enter" -> {w}
              [] cb = "cb_backward_char" -> cb_backward_char(w)
              [] cb = "cb_forward_char" -> cb_forward_char(w)
              [] cb = "cb_previous_screen_line" -> cb_previous_screen_line(w)
              [] cb = "cb_next_screen_line" -> cb_next_screen_line(w)
              [] cb = "cb_backspace" -> cb_backspace(w)
              [] cb = "cb_delete" -> cb_delete(w)
              [] cb = "cb_backward_word" -> cb_backward_word(w)
              [] cb = "cb_forward_word" -> cb_forward_word(w)
              [] cb = "cb_unix_line_discard" -> cb_unix_line_discard(w)
              [] cb = "cb_kill_line" -> cb_kill_line(w)
  IN {[w |-> w1, done |-> Returns(cb)] : w1 \in ws}

-----------------------------------------------------------------------------
(* The insertion path of on_key                                             *)

Max(a, b) == IF a > b THEN a ELSE b

\* unsigned(0.9 * term_cols) and unsigned(0.1 * term_cols).
NineTenths(n) == (9 * n) \div 10
OneTenth(n) == n \div 10

\* The max_lines bookkeeping and the scroll of the multiline insert
\* (old_nlines: the row count before the insertion).
GrowLines(w, old_nlines) ==
  LET h == w.s
      n == Len(h.line_offset)
  IN IF ~(n > h.max_lines) THEN w
     ELSE IF n # h.max_lines + 1 THEN Abort(w)
     ELSE LET h1 == [h EXCEPT !.max_lines = n]
          \* the sum is a size_t: an initial_row that wrapped around exceeds term_rows
          IN IF h1.initial_row < 0 \/ h1.initial_row + n - 1 + h1.cur_frame_lines > h1.term_rows
               THEN IF n - old_nlines # 1 THEN Abort([w EXCEPT !.s = h1])
                    ELSE Emit([w EXCEPT !.s = [h1 EXCEPT !.initial_row = (@ - 1)]],
                              <<Tok("SU_CR_IL")>>)
               ELSE IF h1.cur_frame_lines > 0
                 THEN Emit([w EXCEPT !.s = h1], <<Tok("NL_IL")>>)
                 ELSE [w EXCEPT !.s = h1]

\* Each branch below returns the working state and to_print.
InsertMultiline(w, l) ==
  LET h == w.s                          \* the new bytes are in the buffer already
      r == recompute_line_offset(h, h.pos_y)
      h1 == [h EXCEPT !.line_offset = r.lo]
      w1 == [w EXCEPT !.s = h1]
      p == U8Prev(h.buffer, h.offset)
      w2 == IF h.pos_x = 0 /\ h.pos_y > 0 /\ h.offset + l = Len(h.buffer)
              THEN LET m == move_to(w1, h.term_cols, h.pos_y - 1)
                   \* u8_prev gives NULL at offset 0: write() gets a bad address
                   IN IF p < 0 THEN m
                      ELSE Emit(m, <<Bytes(SubSeq(h.buffer, p + 1, h.offset + l))>>)
              ELSE Emit(w1, <<Bytes(From(h.buffer, h.offset))>>)
  IN IF ~r.ok THEN [w |-> Abort(w), to_print |-> 0]
     ELSE [w |-> GrowLines(w2, Len(w.s.line_offset)), to_print |-> Len(h.buffer) - h.offset]

InsertSingleLine(w, l) ==
  LET h == w.s
  IN IF h.initial_col + h.pos_x > Max(1, NineTenths(h.term_cols))
       THEN LET r == offset_after_n_chars(h, Max(1, OneTenth(h.term_cols)), h.line_offset[1])
                new_offset == IF r.off > h.offset THEN h.offset ELSE r.off
                nchars2 == U8Mbsnlen(h.buffer, 0, new_offset)
                h1 == [h EXCEPT !.line_offset[1] = new_offset,
                                !.pos_x = 1 + U8Mbsnlen(h.buffer, new_offset, h.offset - new_offset)]
                r2 == offset_after_n_chars(h, (h.term_cols - 1), new_offset)
                w1 == Emit(Emit(move_to(w, 1, h.initial_row), <<Tok("LAQUO")>>),
                           <<Bytes(SubSeq(h.buffer, new_offset + 1, r2.off))>>)
            IN IF ~r.ok \/ ~(nchars2 > 0) THEN [w |-> Abort(w), to_print |-> 0]
               ELSE IF ~r2.ok
                 THEN [w |-> Abort(Emit(move_to([w EXCEPT !.s = h1], 1, h.initial_row),
                                        <<Tok("LAQUO")>>)), to_print |-> 0]
               ELSE [w |-> [w1 EXCEPT !.s = h1], to_print |-> r2.off - new_offset]
       ELSE LET n == UMin(h.term_cols - (h.initial_col + h.pos_x), Len(h.buffer))
                r == offset_after_n_chars(h, n, h.offset)
            IN IF ~r.ok THEN [w |-> Abort(w), to_print |-> 0]
               ELSE [w |-> Emit(w, <<Bytes(SubSeq(h.buffer, h.offset + 1, r.off))>>),
                     to_print |-> r.off - h.offset]

\* The overwrite branch (insert == false, offset inside the buffer).  bytes is
\* the encoded new character, l its length.
\*  - same length: the bytes are replaced in place;
\*  - new character shorter: vector::insert(pos, 0, l - l_old) inserts zero copies
\*    of a byte, the vector keeps its size and the tail of the old character stays;
\*  - new character longer: vector::erase(first, last) with last before first is
\*    undefined.  The library moves [last, end) up to first and grows the vector
\*    by first - last, which together with the copy_n is a replacement; a checking
\*    build, or a vector without spare capacity, dies instead.
\* In both unequal cases every later row start is incremented by one.
Overwrite(w, bytes) ==
  LET h == w.s
      l == Len(bytes)
      l_old == U8Mbtoucr(h.buffer, h.offset)
      shifted == [i \in 1 .. Len(h.line_offset) |->
                    IF i > h.pos_y + 1 THEN (h.line_offset[i] + 1) ELSE h.line_offset[i]]
      keep == IF l <= l_old THEN l ELSE l_old   \* bytes of the vector copy_n overwrites in place
      b2 == SubSeq(h.buffer, 1, h.offset) \o bytes \o From(h.buffer, h.offset + keep)
      h2 == [h EXCEPT !.buffer = b2,
                      !.line_offset = IF l_old # l THEN shifted ELSE h.line_offset]
      done == [w |-> Emit([w EXCEPT !.s = h2], <<Bytes(bytes)>>), to_print |-> l]
  IN IF l_old < 0 THEN {[w |-> Abort(w), to_print |-> 0]}    \* assert(ignore != 0xfffd)
     \* for_each from an iterator past end(): the walk leaves the vector's storage
     ELSE IF l_old # l /\ h.pos_y + 1 > Len(h.line_offset)
       THEN {[w |-> Abort(w), to_print |-> 0]}
     ELSE IF l > l_old THEN {done, [w |-> Abort(w), to_print |-> 0]}
     ELSE {done}

\* The Unicode branch of on_key without ALT or CTRL.
InsertKey(w, uc) ==
  LET h == w.s
      bytes == U8Uctomb(uc)
      l == Len(bytes)
      w0 == IF h.buffer = <<>> /\ h.empty_message THEN Emit(w, <<Tok("EL")>>) ELSE w
      branch ==
        IF h.insert \/ h.offset = Len(h.buffer)
          THEN LET w1 == [w0 EXCEPT !.s.buffer = Insert(h.buffer, h.offset, bytes),
                                    !.s.nchars = (h.nchars + 1)]
               IN {IF h.multiline THEN InsertMultiline(w1, l) ELSE InsertSingleLine(w1, l)}
          ELSE Overwrite(w0, bytes)
      Advance(r) ==
        LET g == r.w.s
            x == (g.pos_x + 1)
            wrap == x = g.term_cols
            g2 == [g EXCEPT !.offset = g.offset + l,
                            !.requested_pos_x = x,
                            !.pos_x = IF wrap THEN 0 ELSE x,
                            !.pos_y = IF wrap THEN g.pos_y + 1 ELSE g.pos_y]
            w2 == [r.w EXCEPT !.s = g2]
        IN IF r.w.proc # "running" THEN r.w
           ELSE IF wrap \/ r.to_print > 1 THEN move_to(w2, g2.pos_x, g2.pos_y)
           ELSE w2
  IN IF ~(h.offset <= Len(h.buffer)) THEN {Abort(w)}  \* assert(s.offset <= s.buffer.size())
     ELSE {Advance(r) : r \in branch}

\* A variant of on_key that looks the key up without its modifiers; C36 must
\* tell it from the code.
on_key_without_modifiers(w, key) ==
  LET cb == key_map(key.type = "keysym", {}, key.codepoint, key.sym)
  IN IF key.type = "unicode"
       THEN IF key.mod \cap {"ALT", "CTRL"} = {}
              THEN {[w |-> w1, done |-> FALSE] : w1 \in InsertKey(w, key.codepoint)}
              ELSE IF cb # "" THEN Call(cb, w) ELSE {[w |-> w, done |-> FALSE]}
       ELSE IF cb # ""
         THEN {IF r.w.proc = "running" /\ w.s.buffer # <<>> /\ r.w.s.buffer = <<>>
                  /\ w.s.empty_message
                 THEN [r EXCEPT !.w = show_empty_message(r.w)]
                 ELSE r
                 : r \in Call(cb, w)}
         ELSE {[w |-> w, done |-> FALSE]}

\* on_key: the outcomes of one key, each with the return value (done: commit).
on_key(w, key) ==
  LET mods == key.mod \cap {"ALT", "SHIFT", "CTRL"}
      cb == key_map(key.type = "keysym", mods, key.codepoint, key.sym)
  IN IF key.type = "unicode"
       THEN IF key.mod \cap {"ALT", "CTRL"} = {}
              THEN {[w |-> w1, done |-> FALSE] : w1 \in InsertKey(w, key.codepoint)}
              ELSE IF cb # "" THEN Call(cb, w) ELSE {[w |-> w, done |-> FALSE]}
       ELSE IF cb # ""
         THEN {IF r.w.proc = "running" /\ w.s.buffer # <<>> /\ r.w.s.buffer = <<>>
                  /\ w.s.empty_message
                 THEN [r EXCEPT !.w = show_empty_message(r.w)]
                 ELSE r
                 : r \in Call(cb, w)}
         ELSE {[w |-> w, done |-> FALSE]}

-----------------------------------------------------------------------------
(* Events and handle_one                                                    *)

\* Ctrl-C, or Ctrl-D on an empty buffer: the cancel test of handle_one.
IsCancel(h, key) ==
  /\ key.type = "unicode"
  /\ key.mod = {"CTRL"}
  /\ \/ key.codepoint \in {Chr("C"), Chr("c")}
     \/ (h.buffer = <<>> /\ key.codepoint \in {Chr("D"), Chr("d")})

\* The termkey_getkey loop over the keys the decoder holds, then its final result
\* (eof: TERMKEY_RES_EOF).  Each outcome: the working state, done, why the edit
\* committed, and the number of keys taken from the decoder.
RECURSIVE KeyLoop(_, _, _, _)
KeyLoop(w, keys, eof, used) ==
  IF keys = <<>>
    THEN {[w |-> w, done |-> eof, why |-> IF eof THEN "eof" ELSE "none", used |-> used]}
  ELSE IF IsCancel(w.s, Head(keys))
    THEN {[w |-> w, done |-> TRUE, why |-> "cancel", used |-> used + 1]}
  ELSE UNION {IF r.w.proc # "running"
                THEN {[w |-> r.w, done |-> FALSE, why |-> "none", used |-> used + 1]}
              ELSE IF r.done
                THEN {[w |-> r.w, done |-> TRUE, why |-> "enter", used |-> used + 1]}
              ELSE KeyLoop(r.w, Tail(keys), eof, used + 1)
                : r \in on_key(w, Head(keys))}

\* A handle_one that does not look at the decoder's final result.
handle_one_eof_unseen(w, ev) ==
  IF ev.fd = "tkfd"
    THEN {[w |-> r.w, handled |-> TRUE, done |-> r.done, why |-> r.why, used |-> r.used]
            : r \in KeyLoop(w, ev.keys, FALSE, 0)}
  ELSE IF ev.fd = "sigfd"
    THEN {[w |-> [w EXCEPT !.s.term_cols = ev.size[1], !.s.term_rows = ev.size[2]],
           handled |-> TRUE, done |-> FALSE, why |-> "none", used |-> 0]}
  ELSE {[w |-> w, handled |-> FALSE, done |-> FALSE, why |-> "none", used |-> 0]}

\* A handle_one that takes every descriptor other than tkfd for the signalfd.
handle_one_any_is_sigfd(w, ev) ==
  IF ev.fd = "tkfd"
    THEN {[w |-> r.w, handled |-> TRUE, done |-> r.done, why |-> r.why, used |-> r.used]
            : r \in KeyLoop(w, ev.keys, ev.eof, 0)}
  ELSE {[w |-> [w EXCEPT !.s.term_cols = ev.size[1], !.s.term_rows = ev.size[2]],
         handled |-> TRUE, done |-> FALSE, why |-> "none", used |-> 0]}

\* A handle_one that asks the decoder for one key only.
handle_one_one_key(w, ev) ==
  IF ev.fd = "tkfd"
    THEN {[w |-> r.w, handled |-> TRUE, done |-> r.done, why |-> r.why, used |-> r.used]
            : r \in KeyLoop(w, SubSeq(ev.keys, 1, IF ev.keys = <<>> THEN 0 ELSE 1),
                            ev.eof /\ ev.keys = <<>>, 0)}
  ELSE IF ev.fd = "sigfd"
    THEN {[w |-> [w EXCEPT !.s.term_cols = ev.size[1], !.s.term_rows = ev.size[2]],
           handled |-> TRUE, done |-> FALSE, why |-> "none", used |-> 0]}
  ELSE {[w |-> w, handled |-> FALSE, done |-> FALSE, why |-> "none", used |-> 0]}

\* handle_one: an event is [fd, keys, eof, size]; keys and eof say what the decoder
\* delivers for a key event, size what TIOCGWINSZ answers for a signal event.
\* Each outcome carries handled and done, the function's two results.
handle_one(w, ev) ==
  IF ev.fd = "tkfd"
    THEN {[w |-> r.w, handled |-> TRUE, done |-> r.done, why |-> r.why, used |-> r.used]
            : r \in KeyLoop(w, ev.keys, ev.eof, 0)}
  ELSE IF ev.fd = "sigfd"
    THEN {[w |-> [w EXCEPT !.s.term_cols = ev.size[1], !.s.term_rows = ev.size[2]],
           handled |-> TRUE, done |-> FALSE, why |-> "none", used |-> 0]}
  ELSE {[w |-> w, handled |-> FALSE, done |-> FALSE, why |-> "none", used |-> 0]}

-----------------------------------------------------------------------------
(* Session lifecycle                                                        *)

\* nonescape_len: the characters of the prompt outside escape sequences.
RECURSIVE NonescapeLoop(_, _, _)
NonescapeLoop(sv, i, in_csi) ==
  IF i > Len(sv) THEN 0
  ELSE LET ch == sv[i]
       IN IF ~in_csi
            THEN IF ch = 27 THEN NonescapeLoop(sv, i + 1, TRUE)
                 ELSE (IF ~IsCont(ch) THEN 1 ELSE 0) + NonescapeLoop(sv, i + 1, FALSE)
            ELSE NonescapeLoop(sv, i + 1, ch = 91 \/ ch < 64 \/ ch > 126)

nonescape_len(sv) == NonescapeLoop(sv, 1, FALSE)

\* leave: the single writev the_loop issues before finalize: the frame without its
\* highlight, the hint cleared, the cursor below the edit.
leave(w) ==
  LET h == w.s
      rows == IF h.fl = "none" THEN Len(h.line_offset) ELSE h.max_lines
  IN Emit(w,
       (IF h.fl = "frame_line" /\ h.frame_highlight
          THEN <<move_to_buf(h, 0, -1), Tok("frame"),
                 move_to_buf(h, 0, h.max_lines), Tok("frame")>>
          ELSE <<>>)
       \o (IF h.buffer = <<>> /\ h.empty_message
             THEN <<move_to_buf(h, h.pos_x, h.pos_y), Tok("EL")>> ELSE <<>>)
       \o <<move_to_buf(h, h.term_cols - 1, rows - 1 + h.cur_frame_lines), Tok("NL")>>)

\* setup_epoll in state closed.  size is what TIOCGWINSZ answers.  The signalfd is
\* a new descriptor every time; the one of the edit before stays open.
setup_epoll(w, size) ==
  IF w.s.term_state # "closed" THEN w
  ELSE [w EXCEPT !.s.old_mask = w.sigmask,
                 !.sigmask = TRUE,
                 !.s.term_cols = size[1],
                 !.s.term_rows = size[2],
                 !.nsigfd = @ + 1,
                 !.epoll = @ \cup {"tkfd", "sigfd"},
                 !.nonblock = TRUE,
                 !.s.term_state = "open"]

\* A cleanup_epoll that leaves the key descriptor registered.
cleanup_epoll_keeps_tkfd(w) ==
  IF w.s.term_state # "open" THEN Abort(w)
  ELSE [w EXCEPT !.sigmask = IF ~w.s.old_mask THEN TRUE ELSE @,
                 !.epoll = @ \ {"sigfd"},
                 !.s.term_state = "closed"]

\* cleanup_epoll: sigprocmask(SIG_BLOCK) when SIGWINCH was not in old_mask, then the
\* two EPOLL_CTL_DEL.
cleanup_epoll(w) ==
  IF w.s.term_state # "open" THEN Abort(w)                   \* assert(term_state == open)
  ELSE [w EXCEPT !.sigmask = IF ~w.s.old_mask THEN TRUE ELSE @,
                 !.epoll = @ \ {"tkfd", "sigfd"},
                 !.s.term_state = "closed"]

finalize(w) ==
  cleanup_epoll(Emit(w, (IF w.s.fl = "frame_background" THEN <<Tok("SGR0")>> ELSE <<>>)
                        \o (IF w.s.osc133 THEN <<Tok("OSC133_C")>> ELSE <<>>)))

\* What handle::prepare does in state closed.  size is the window size the
\* terminal reports, pos = <<col, row>> the cursor position it answers to the DSR
\* query.  max_lines, insert and requested_pos_x keep the values the edit
\* before left.
prepare_closed(w, size, pos) ==
       LET w1 == setup_epoll(w, size)
           h1 == w1.s
           framed == h1.fl # "none"
           plen == nonescape_len(h1.prompt)
           h2 == [h1 EXCEPT !.buffer = <<>>,
                            !.cur_frame_lines = IF framed THEN 1 ELSE 0,
                            !.initial_col = pos[1], !.initial_row = pos[2],
                            !.offset = 0, !.nchars = 0, !.pos_y = 0,
                            !.line_offset = <<0>>,
                            !.prompt_len = plen, !.pos_x = plen]
           w2 == Emit(w1, <<Tok(IF h1.osc133 THEN "OSC133_L" ELSE "CR")>>
                          \o (IF framed THEN <<Tok("frame")>> ELSE <<>>)
                          \o (IF h1.fl = "frame_background" THEN <<Tok("SGR_text")>> ELSE <<>>)
                          \o <<Tok("DSR")>>)
           w3 == Emit([w2 EXCEPT !.s = h2],
                      (IF h1.prompt # <<>>
                         THEN (IF h1.osc133 THEN <<Tok("OSC133_A")>> ELSE <<>>)
                              \o <<Bytes(h1.prompt)>>
                         ELSE <<>>)
                      \o (IF h1.osc133 THEN <<Tok("OSC133_B")>> ELSE <<>>)
                      \o <<Tok("EL")>>)
       IN IF pos[1] # 1
            THEN Abort([w2 EXCEPT !.s.initial_col = pos[1], !.s.initial_row = pos[2],
                                  !.s.buffer = <<>>,
                                  !.s.cur_frame_lines = IF framed THEN 1 ELSE 0])
            ELSE IF h2.empty_message THEN show_empty_message(w3) ELSE w3

\* A prepare that begins an edit in state open too.
prepare_unconditional(w, size, pos) ==
  IF w.s.term_state \notin {"open", "closed"} THEN Abort(w)
  ELSE prepare_closed(w, size, pos)

\* handle::prepare: nothing happens in state open.
prepare(w, size, pos) ==
  IF w.s.term_state = "open" THEN w
  ELSE IF w.s.term_state # "closed" THEN Abort(w)
  ELSE prepare_closed(w, size, pos)

\* setup_epoll up to the epoll_ctl call for tkfd that fails with EPERM: the mask
\* is changed and the signalfd is open when the exception leaves the function.
setup_epoll_eperm(w, size) ==
  [w EXCEPT !.s.old_mask = w.sigmask,
            !.sigmask = TRUE,
            !.s.term_cols = size[1],
            !.s.term_rows = size[2],
            !.nsigfd = @ + 1]

\* The ways a prepare() call ends.  With a descriptor that epoll does not take,
\* setup_epoll gets EPERM in state closed: assert(s.tk == nullptr) ends the
\* process where assertions are compiled in and the decoder exists, otherwise
\* the exception leaves prepare() before it wrote anything.
PrepareOutcomes(w, size, pos) ==
  IF w.s.term_state = "closed" /\ ~w.s.fd_epoll
    THEN {Abort(w), setup_epoll_eperm(w, size)}
    ELSE {prepare(w, size, pos)}

-----------------------------------------------------------------------------
(* The environment: keys, window sizes, configurations                      *)

Enter == SymKey({}, "ENTER")
CtrlC == UnicodeKey({"CTRL"}, Chr("c"))
CtrlD == UnicodeKey({"CTRL"}, Chr("d"))
CtrlU == UnicodeKey({"CTRL"}, Chr("u"))
CtrlK == UnicodeKey({"CTRL"}, Chr("k"))

\* The keys that insert: Unicode keys without ALT and CTRL.
InsertKeys(codepoints) == {UnicodeKey({}, uc) : uc \in codepoints}

\* The keys of the dispatch table the model types, the cancel keys, and two keys
\* without a binding (Alt-x, Ctrl-Left).
EditKeys ==
  {SymKey({}, n) : n \in {"HOME", "END", "INSERT", "ENTER", "LEFT", "RIGHT", "UP", "DOWN",
                          "BACKSPACE", "DELETE"}}
  \cup {CtrlU, CtrlK, CtrlC, CtrlD, UnicodeKey({"ALT"}, Chr("x")), SymKey({"CTRL"}, "LEFT")}

\* Window sizes <<columns, rows>>.
WinSizes == {<<3, 2>>, <<2, 2>>}

\* The prompt ">".
Prompt == <<62>>

\* A configuration: what the application set on the handle (prompt, multiline) and
\* what the terminal and the user do in the behaviours explored:
\*   codepoints, maxlen  the characters typed and how many of them at most
\*   editkeys            the other keys pressed
\*   batchkeys           the keys that also arrive several at a time
\*   eof                 whether the decoder can report EOF
\*   sizes, rows         the window sizes and cursor rows an edit begins with
\*   resizes             the window sizes SIGWINCH events bring
\*   foreign             whether events of other descriptors reach the handle
\*   edits               how many edits are opened at most
\*   scenario            a key sequence the variable script follows
\*   track               what script follows: "scenario", "typeback" for some
\*                       characters followed by as many Backspace keys, or
\*                       "used" for the number of keys the last call took
\*   fd_epoll            whether epoll accepts the descriptor (a terminal) or
\*                       refuses it with EPERM (a regular file)
\* The codepoints are a and e-acute, of one and two bytes.
FullCfg ==
  [codepoints |-> {97, 233}, maxlen |-> MaxLen, editkeys |-> EditKeys,
   batchkeys |-> {UnicodeKey({}, 97), CtrlC, Enter}, eof |-> TRUE,
   sizes |-> WinSizes, rows |-> {1, 2}, resizes |-> WinSizes, foreign |-> TRUE,
   prompt |-> Prompt, multiline |-> BOOLEAN, edits |-> MaxEdits, scenario |-> <<>>,
   track |-> "scenario", fd_epoll |-> {TRUE}]

\* The counters of handle h are within the range the model follows.  The code
\* lets nchars, pos_y, offset and the entries of line_offset drift without limit
\* over a long edit (nchars below zero, the others upwards); a handle that left
\* the range gets no further keys.
Within(cfg, h) ==
  /\ h.nchars >= 0 /\ h.nchars <= cfg.maxlen
  /\ h.pos_y <= cfg.maxlen
  /\ h.offset <= Len(h.buffer) + 1
  /\ \A i \in 1 .. Len(h.line_offset) : h.line_offset[i] <= Len(h.buffer) + 1

\* The key sequences one readiness event of the key descriptor can deliver in
\* handle h: nothing, any one key, or up to MaxBatch of the batch keys.  Insert
\* keys come only while the buffer, nchars and pos_y stay within maxlen.
RECURSIVE Batches(_, _)
Batches(keys, n) ==
  IF n = 0 THEN {<<>>}
  ELSE LET shorter == Batches(keys, n - 1)
       IN shorter \cup {Append(b, k) : b \in {x \in shorter : Len(x) = n - 1}, k \in keys}

Inserts(b) == Cardinality({i \in 1 .. Len(b) : b[i].type = "unicode" /\ b[i].mod = {}})

KeyEvents(cfg, h) ==
  LET all == {<<k>> : k \in InsertKeys(cfg.codepoints) \cup cfg.editkeys}
               \cup Batches(cfg.batchkeys, MaxBatch)
      fits == {b \in all : \/ Inserts(b) = 0
                            \/ /\ U8Mbsnlen(h.buffer, 0, Len(h.buffer)) + Inserts(b) <= cfg.maxlen
                               /\ h.nchars + Inserts(b) <= cfg.maxlen
                               /\ h.pos_y + Inserts(b) <= cfg.maxlen}
  IN IF ~Within(cfg, h) THEN {}
     ELSE
     {[fd |-> "tkfd", keys |-> b, eof |-> FALSE, size |-> <<0, 0>>] : b \in fits}
     \cup {[fd |-> "tkfd", keys |-> b, eof |-> TRUE, size |-> <<0, 0>>]
             : b \in {x \in fits : /\ cfg.eof
                                    /\ Len(x) <= 1
                                    /\ \A i \in 1 .. Len(x) : x[i] \in cfg.batchkeys}}

WinchEvents(cfg) ==
  {[fd |-> "sigfd", keys |-> <<>>, eof |-> FALSE, size |-> z] : z \in cfg.resizes}

\* An event of a descriptor that is neither tkfd nor sigfd.
OtherEvent == [fd |-> "other", keys |-> <<>>, eof |-> FALSE, size |-> <<0, 0>>]

\* The events epoll can report: those of the registered descriptors and, the epoll
\* instance being the caller's, those of other descriptors.
Events(cfg) ==
  (IF "tkfd" \in epoll THEN KeyEvents(cfg, s) ELSE {})
  \cup (IF "sigfd" \in epoll THEN WinchEvents(cfg) ELSE {})
  \cup (IF cfg.foreign THEN {OtherEvent} ELSE {})

-----------------------------------------------------------------------------
(* The state machine                                                        *)

\* The handle after its constructor (member initialisers, init_state) and after
\* the application configured it: set_prompt, the hint text, multiline.
\* empty_message is TRUE for a hint text that is not empty, frame_highlight for a
\* frame_highlight_fg other than the terminal's default foreground.
NewHandle(cfg, ml, ep) ==
  [buffer |-> <<>>, line_offset |-> <<0>>, max_lines |-> 1, prompt |-> cfg.prompt,
   empty_message |-> TRUE, fl |-> "none", frame_highlight |-> FALSE,
   term_state |-> "closed",
   term_rows |-> 0, term_cols |-> 0, cur_frame_lines |-> 0, old_mask |-> FALSE,
   multiline |-> ml, insert |-> TRUE, osc133 |-> FALSE,
   initial_col |-> 0, initial_row |-> 0, offset |-> 0, nchars |-> 0, pos_x |-> 0,
   requested_pos_x |-> 0, pos_y |-> 0, prompt_len |-> 0, fd_epoll |-> ep]

\* What a call returned: nothing (void, or still inside read()), a line, or the
\* unexpected(handled) of process().  why tells what committed a line.
NoResult == [kind |-> "none", line |-> <<>>, handled |-> FALSE, why |-> "none"]
Line(bytes, why) == [kind |-> "line", line |-> bytes, handled |-> TRUE, why |-> why]
Unexpected(handled) == [kind |-> "unexpected", line |-> <<>>, handled |-> handled, why |-> "none"]

\* prepare() or read() left by the filesystem_error of setup_epoll.
Failed == [kind |-> "error", line |-> <<>>, handled |-> FALSE, why |-> "eperm"]

InitOf(cfg) ==
  /\ s \in {NewHandle(cfg, ml, ep) : ml \in cfg.multiline, ep \in cfg.fd_epoll}
  /\ epoll = {}
  /\ sigmask = FALSE
  /\ nsigfd = 0
  /\ nonblock = FALSE
  /\ reading = FALSE
  /\ proc = "running"
  /\ out = <<>>
  /\ result = NoResult
  /\ script = 0

\* The working state a call starts from; out collects what this call writes.
Cur ==
  [s |-> s, out |-> <<>>, proc |-> proc, epoll |-> epoll, sigmask |-> sigmask,
   nsigfd |-> nsigfd, nonblock |-> nonblock]

\* The call ends in working state w.  A failed assert (or a crash) ends the process
\* in the middle of the handler: nothing of the object can be observed any more,
\* and the model keeps the state of before the call.
Install(w) ==
  IF w.proc = "running"
    THEN /\ s' = w.s
         /\ out' = w.out
         /\ proc' = w.proc
         /\ epoll' = w.epoll
         /\ sigmask' = w.sigmask
         /\ nsigfd' = w.nsigfd
         /\ nonblock' = w.nonblock
    ELSE /\ proc' = w.proc
         /\ UNCHANGED <<s, out, epoll, sigmask, nsigfd, nonblock>>

\* script in a "typeback" configuration after one more key.  With n = maxlen,
\* p in 1 .. n + 1 says that p - 1 characters were typed and nothing else, and
\* p in n + 2 .. 2n + 1 that Backspace keys followed them and 2n + 1 - p more
\* make as many Backspace keys as characters.
TypeBackKey(cfg, p, key) ==
  LET n == cfg.maxlen
  IN IF p <= 0 THEN p
     ELSE IF key \in InsertKeys(cfg.codepoints) THEN (IF p <= n THEN p + 1 ELSE -1)
     ELSE IF key = SymKey({}, "BACKSPACE")
       THEN IF p = 1 \/ p = 2 * n + 1 THEN -1
            ELSE IF p <= n + 1 THEN 2 * n + 3 - p
            ELSE p + 1
     ELSE -1

RECURSIVE TypeBack(_, _, _)
TypeBack(cfg, p, keys) ==
  IF keys = <<>> THEN p ELSE TypeBack(cfg, TypeBackKey(cfg, p, Head(keys)), Tail(keys))

\* script after the decoder handed out the key sequence keys.
Follow(cfg, keys) ==
  IF cfg.track = "typeback" THEN TypeBack(cfg, script, keys)
  ELSE IF cfg.track = "used" THEN Len(keys)
  ELSE IF script <= 0 \/ keys = <<>> THEN script
  ELSE IF script - 1 + Len(keys) <= Len(cfg.scenario)
          /\ SubSeq(cfg.scenario, script, script - 1 + Len(keys)) = keys
    THEN script + Len(keys)
  ELSE -1

\* script after event ev of which handle_one took used keys.
ScriptAfter(cfg, ev, used) ==
  IF ev.fd = "tkfd" THEN Follow(cfg, SubSeq(ev.keys, 1, used))
  ELSE IF ev.fd = "sigfd" /\ script > 0 /\ ev.size # <<s.term_cols, s.term_rows>> THEN -1
  ELSE script

\* The terminal's answers to prepare: a window size and a cursor row.
Answers(cfg) == {<<z, row>> : z \in cfg.sizes, row \in cfg.rows}

\* An event epoll_wait can report now.
Ready(ev) == ev.fd = "other" \/ ev.fd \in epoll

\* script when an edit begins.
ScriptBegin(cfg) ==
  IF s.term_state = "closed"
    THEN (IF cfg.track = "used" \/ (cfg.scenario = <<>> /\ cfg.track = "scenario")
            THEN 0 ELSE 1)
    ELSE script

\* prepare() with the terminal answering a = <<window size, cursor row>>.
PrepareStep(cfg, a) ==
  /\ proc = "running"
  /\ ~reading
  /\ s.term_state = "closed" => nsigfd < cfg.edits
  /\ \E w \in PrepareOutcomes(Cur, a[1], <<1, a[2]>>) :
       /\ Install(w)
       /\ result' = IF w.proc = "running" /\ w.s.term_state = "closed"
                      THEN Failed ELSE NoResult
  /\ script' = ScriptBegin(cfg)
  /\ UNCHANGED reading

\* The application calls prepare().
Prepare(cfg) == \E a \in Answers(cfg) : PrepareStep(cfg, a)

\* process(ev) with outcome r of its handle_one call.
ProcessStep(cfg, ev, r) ==
  /\ proc = "running"
  /\ ~reading
  /\ Ready(ev)
  /\ IF r.w.proc # "running" THEN Install(r.w) /\ result' = NoResult
     ELSE IF ~r.done THEN Install(r.w) /\ result' = Unexpected(r.handled)
     ELSE LET f == finalize(r.w)
          IN Install(f)
             /\ result' = IF f.proc = "running" THEN Line(f.s.buffer, r.why) ELSE NoResult
  /\ script' = ScriptAfter(cfg, ev, r.used)
  /\ UNCHANGED reading

\* The application calls process(ev) with an event epoll_wait gave it.
Process(cfg) ==
  \E ev \in Events(cfg) : \E r \in handle_one(Cur, ev) : ProcessStep(cfg, ev, r)

\* read() begins: the_loop calls prepare() and waits in epoll_wait.
ReadStep(cfg, a) ==
  /\ proc = "running"
  /\ ~reading
  /\ s.term_state = "closed" => nsigfd < cfg.edits
  /\ \E w \in PrepareOutcomes(Cur, a[1], <<1, a[2]>>) :
       /\ Install(w)
       /\ result' = IF w.proc = "running" /\ w.s.term_state = "closed"
                      THEN Failed ELSE NoResult
       /\ reading' = (w.proc = "running" /\ w.s.term_state = "open")
  /\ script' = ScriptBegin(cfg)

\* The application calls read().
Read(cfg) == \E a \in Answers(cfg) : ReadStep(cfg, a)

\* One turn of the_loop inside read(): epoll_wait reports ev and handle_one ends
\* in r; when it says done, leave and finalize run and read() returns the buffer.
LoopStep(cfg, ev, r) ==
  /\ proc = "running"
  /\ reading
  /\ Ready(ev)
  /\ IF r.w.proc # "running" THEN Install(r.w) /\ result' = NoResult /\ reading' = FALSE
     ELSE IF ~r.done THEN Install(r.w) /\ result' = NoResult /\ reading' = TRUE
     ELSE LET f == finalize(leave(r.w))
          IN Install(f) /\ reading' = FALSE
             /\ result' = IF f.proc = "running" THEN Line(f.s.buffer, r.why) ELSE NoResult
  /\ script' = ScriptAfter(cfg, ev, r.used)

TheLoop(cfg) ==
  \E ev \in Events(cfg) : \E r \in handle_one(Cur, ev) : LoopStep(cfg, ev, r)

NextOf(cfg) == Prepare(cfg) \/ Process(cfg) \/ Read(cfg) \/ TheLoop(cfg)

\* The whole interface, with a small repertoire of keys.
MainCfg ==
  [FullCfg EXCEPT !.editkeys = {Enter, CtrlC, CtrlD, CtrlU, SymKey({}, "LEFT"),
                                SymKey({}, "BACKSPACE")}]

Init == InitOf(MainCfg)
Next == NextOf(MainCfg)
Spec == Init /\ [][Next]_vars

\* Editing in one edit that process() drives, at a fixed window size.
EditCfg ==
  [FullCfg EXCEPT !.sizes = {<<3, 2>>}, !.resizes = {}, !.foreign = FALSE, !.edits = 1,
                  !.eof = FALSE, !.editkeys = EditKeys \ {CtrlC, CtrlD}]

InitEdit == InitOf(EditCfg)
NextEdit == Prepare(EditCfg) \/ Process(EditCfg)
SpecEdit == InitEdit /\ [][NextEdit]_vars

\* The scenario "hello", Enter on a terminal of 20 columns with the prompt "> ".
HelloLen == 5

Hello ==
  <<UnicodeKey({}, Chr("h")), UnicodeKey({}, Chr("e")), UnicodeKey({}, Chr("l")),
    UnicodeKey({}, Chr("l")), UnicodeKey({}, Chr("o")), Enter>>

HelloCfg ==
  [FullCfg EXCEPT !.codepoints = {Chr("h"), Chr("e"), Chr("l"), Chr("o")},
                  !.maxlen = HelloLen,
                  !.editkeys = {Enter, SymKey({}, "LEFT"), SymKey({}, "INSERT")},
                  !.batchkeys = {UnicodeKey({}, Chr("l")), Enter},
                  !.sizes = {<<20, 5>>}, !.resizes = {<<20, 5>>}, !.rows = {1},
                  !.prompt = <<62, 32>>, !.multiline = {TRUE}, !.edits = 1,
                  !.eof = FALSE, !.foreign = FALSE,
                  !.scenario = Hello]

InitHello == InitOf(HelloCfg)
NextHello == NextOf(HelloCfg)
SpecHello == InitHello /\ [][NextHello]_vars

\* Typing and erasing: strings of up to TypeLen characters of one to four bytes
\* (a, e-acute, the euro sign, U+1F600) and the Backspace key, in both modes and
\* both window sizes, through process() and through read().
TypeLen == 4

TypeCfg ==
  [FullCfg EXCEPT !.codepoints = {97, 233, 8364, 128512}, !.maxlen = TypeLen,
                  !.editkeys = {SymKey({}, "BACKSPACE")},
                  !.batchkeys = {UnicodeKey({}, 97), SymKey({}, "BACKSPACE")},
                  !.eof = FALSE, !.foreign = FALSE, !.resizes = {}, !.edits = 1,
                  !.track = "typeback"]

InitType == InitOf(TypeCfg)
NextType == NextOf(TypeCfg)
SpecType == InitType /\ [][NextType]_vars

\* Words: strings of up to WordLen letters and spaces, with the keys Alt-B,
\* Alt-F and Left, on a window of three columns, in both modes.
WordLen == 4

AltB == UnicodeKey({"ALT"}, Chr("b"))
AltF == UnicodeKey({"ALT"}, Chr("f"))

WordCfg ==
  [FullCfg EXCEPT !.codepoints = {97, 32}, !.maxlen = WordLen,
                  !.editkeys = {AltB, AltF, SymKey({}, "LEFT")},
                  !.batchkeys = {UnicodeKey({}, 97), AltB},
                  !.sizes = {<<3, 2>>}, !.resizes = {}, !.foreign = FALSE, !.edits = 1,
                  !.eof = FALSE]

InitWord == InitOf(WordCfg)
NextWord == NextOf(WordCfg)
SpecWord == InitWord /\ [][NextWord]_vars

\* Wrapping: up to WrapLen letters a and the Backspace key on a terminal of 20
\* columns with the prompt "> ", in multiline mode.  The scenario followed is 19
\* letters, then Backspace.
WrapLen == 19

WrapKeys ==
  [i \in 1 .. 20 |-> IF i <= 19 THEN UnicodeKey({}, 97) ELSE SymKey({}, "BACKSPACE")]

WrapCfg ==
  [FullCfg EXCEPT !.codepoints = {97}, !.maxlen = WrapLen,
                  !.editkeys = {SymKey({}, "BACKSPACE")},
                  !.batchkeys = {UnicodeKey({}, 97), SymKey({}, "BACKSPACE")},
                  !.sizes = {<<20, 5>>}, !.resizes = {}, !.rows = {1, 4},
                  !.prompt = <<62, 32>>, !.multiline = {TRUE}, !.edits = 1,
                  !.eof = FALSE, !.foreign = FALSE, !.scenario = WrapKeys]

InitWrap == InitOf(WrapCfg)
NextWrap == NextOf(WrapCfg)
SpecWrap == InitWrap /\ [][NextWrap]_vars

\* Batches: up to MaxBatch of the keys a, Left and Enter decodable at one
\* readiness event; script is the number of keys the last handle_one call of the
\* edit took from the decoder.
BatchLen == 3

BatchCfg ==
  [FullCfg EXCEPT !.codepoints = {97}, !.maxlen = BatchLen,
                  !.editkeys = {Enter, SymKey({}, "LEFT"), SymKey({}, "BACKSPACE")},
                  !.batchkeys = {UnicodeKey({}, 97), SymKey({}, "LEFT"), Enter},
                  !.resizes = {}, !.foreign = FALSE, !.edits = 1, !.track = "used"]

InitBatch == InitOf(BatchCfg)
NextBatch == NextOf(BatchCfg)
SpecBatch == InitBatch /\ [][NextBatch]_vars

\* The whole interface on a terminal and on a descriptor that is no terminal.
FileCfg == [MainCfg EXCEPT !.fd_epoll = BOOLEAN]

InitFile == InitOf(FileCfg)
NextFile == NextOf(FileCfg)
SpecFile == InitFile /\ [][NextFile]_vars

-----------------------------------------------------------------------------
(* Properties                                                               *)

\* The key sequences of one event that end with an unmodified Enter and have no
\* Enter before it (a first Enter closes the session).
EnterEvents(cfg) ==
  {[fd |-> "tkfd", keys |-> b, eof |-> FALSE, size |-> <<0, 0>>]
     : b \in {x \in Batches(cfg.batchkeys, MaxBatch)
                : /\ x # <<>> /\ x[Len(x)] = Enter
                  /\ \A i \in 1 .. Len(x) - 1 : x[i] # Enter}}

\* A step of process() or of the_loop that handles event ev with outcome r.
EventStep(cfg, ev, r) == ProcessStep(cfg, ev, r) \/ LoopStep(cfg, ev, r)

HelloBytes == <<Chr("h"), Chr("e"), Chr("l"), Chr("l"), Chr("o")>>

\* C1, first part: when the keys of an event are handled up to a final Enter, the
\* call returns a line, the line is the buffer as it was when Enter arrived
\* (for a lone Enter: the buffer of before the call), and the session is closed.
C1_EnterStep ==
  ("tkfd" \in epoll /\ proc = "running" /\ Within(HelloCfg, s))
    => \A ev \in EnterEvents(HelloCfg) : \A r \in handle_one(Cur, ev) :
         (r.used = Len(ev.keys) /\ r.w.proc = "running" /\ EventStep(HelloCfg, ev, r))
           => /\ result'.kind = "line"
              /\ result'.line = r.w.s.buffer
              /\ Len(ev.keys) = 1 => result'.line = s.buffer
              /\ s'.buffer = result'.line
              /\ s'.term_state = "closed"

\* C1, second part: after exactly the keys h e l l o Enter on 20 columns with a
\* prompt of 2 columns the buffer and the returned line are "hello", the cursor
\* is at pos_x = 7, pos_y = 0 and line_offset = [0].
C1_HelloState ==
  script = Len(Hello) + 1
    => /\ s.term_cols = 20 /\ s.prompt_len = 2
       /\ s.buffer = HelloBytes
       /\ s.pos_x = 7 /\ s.pos_y = 0 /\ s.line_offset = <<0>>
       /\ result.kind = "line" => result.line = HelloBytes

\* C1: a key sequence that ends with Enter commits the edit and returns the bytes
\* of the buffer, nothing more, wherever the cursor is and in either mode; the
\* input "hello" ends in the state the specification names.
C1_EnterCommits == [][C1_EnterStep]_vars /\ []C1_HelloState

\* C1 witness: read() or process() returned "hello" after h e l l o Enter.
C1_Witness ==
  /\ script = Len(Hello) + 1
  /\ result.kind = "line" /\ result.why = "enter" /\ result.line = HelloBytes
  /\ s.pos_x = 7

\* C2: a line that Ctrl-C, or Ctrl-D on an empty buffer, committed has length 0.
C2_CancelReturnsEmpty ==
  (result.kind = "line" /\ result.why = "cancel") => Len(result.line) = 0

\* The decoder reports EOF and holds no key.
EofEvent == [fd |-> "tkfd", keys |-> <<>>, eof |-> TRUE, size |-> <<0, 0>>]

\* C3: on decoder EOF in an open session the call returns the buffer as it is
\* and the session is closed.
C3_EofCommits ==
  [][\A r \in handle_one(Cur, EofEvent) :
       EventStep(MainCfg, EofEvent, r)
         => /\ result'.kind = "line"
            /\ result'.line = s.buffer
            /\ s'.buffer = s.buffer
            /\ s'.term_state = "closed"]_vars

\* C3 witness: EOF committed a buffer that is not empty.
C3_Witness ==
  /\ result.kind = "line" /\ result.why = "eof" /\ result.line # <<>>
  /\ s.term_state = "closed"

\* C4: process() with an event of a foreign descriptor returns unexpected(false),
\* writes nothing and changes no field of the handle, nor the registrations, the
\* signal mask and the descriptors.
C4_UnknownFd ==
  [][\A r \in handle_one(Cur, OtherEvent) :
       ProcessStep(MainCfg, OtherEvent, r)
         => /\ result' = Unexpected(FALSE)
            /\ out' = <<>>
            /\ s' = s
            /\ UNCHANGED <<epoll, sigmask, nsigfd, nonblock>>]_vars

\* C4 witness: process() said "not handled" in the middle of an edit.
C4_Witness ==
  /\ result = Unexpected(FALSE)
  /\ s.term_state = "open" /\ s.buffer # <<>>

\* The registrations go with term_state.
C5_Registered ==
  /\ s.term_state \in {"closed", "open"}
  /\ nsigfd = 0 => s.term_state = "closed"
  /\ epoll = IF s.term_state = "open" THEN {"tkfd", "sigfd"} ELSE {}

\* What each call does to term_state.
C5_Step ==
  /\ \A a \in Answers(MainCfg) :
       (s.term_state = "closed" /\ (PrepareStep(MainCfg, a) \/ ReadStep(MainCfg, a)))
         => s'.term_state = "open"
  /\ (proc' = "running" /\ result'.kind = "unexpected") => s'.term_state = s.term_state
  /\ (proc' = "running" /\ result'.kind = "unexpected" /\ result'.handled)
       => s.term_state = "open"
  /\ (proc' = "running" /\ result'.kind = "line")
       => s.term_state = "open" /\ s'.term_state = "closed" /\ epoll' = {}

\* C5: term_state is closed after construction, prepare() opens the session and
\* registers both descriptors, an event that does not commit leaves it open, a
\* commit closes it and removes both registrations, and prepare() opens it again.
C5_Lifecycle == []C5_Registered /\ [][C5_Step]_vars

\* C5 witness: a second edit was opened and committed.
C5_Witness ==
  /\ nsigfd = 2
  /\ s.term_state = "closed" /\ result.kind = "line" /\ epoll = {}

\* The bytes of b, read from the start, are well-formed characters one after the
\* other: no partial character, no stray continuation byte, no filler byte.
RECURSIVE WellFormedFrom(_, _)
WellFormedFrom(b, i) ==
  IF i >= Len(b) THEN i = Len(b)
  ELSE LET n == LeadLen(b[i + 1])
       IN /\ b[i + 1] # 0
          /\ n > 0 /\ i + n <= Len(b)
          /\ U8Mbtoucr(SubSeq(b, 1, i + n), i) = n
          /\ WellFormedFrom(b, i + n)

\* o is an offset of b at which a character starts or the buffer ends.
Boundary(b, o) == o \in 0 .. Len(b) /\ (o = Len(b) \/ ~IsCont(b[o + 1]))

\* The number of characters of b that start at the offsets from .. to - 1.
Codepoints(b, from, to) ==
  Cardinality({i \in from .. to - 1 : i >= 0 /\ i < Len(b) /\ ~IsCont(b[i + 1])})

\* An edit is going on and the last call came back.
Editing == proc = "running" /\ s.term_state = "open"

\* C6 (P1): after every handled event of an edit the buffer is well-formed UTF-8.
C6_BufferWellFormed == Editing => WellFormedFrom(s.buffer, 0)

\* C7 (P3): after every handled key event offset is a codepoint boundary of the
\* buffer with 0 <= offset <= len(buffer), and the assertion of the insertion
\* path never fails.
C7_OffsetBoundary ==
  /\ Editing => Boundary(s.buffer, s.offset)
  /\ proc # "aborted"

\* C8 (P4): after every handled key event nchars is the number of codepoints in
\* the buffer.
C8_NcharsCount == Editing => s.nchars = Codepoints(s.buffer, 0, Len(s.buffer))

\* C9 (P2): after every handled key event line_offset is not empty, starts with
\* 0, is strictly increasing, and each entry is a codepoint boundary of the buffer.
C9_LineOffsets ==
  Editing =>
    /\ Len(s.line_offset) >= 1
    /\ s.line_offset[1] = 0
    /\ \A i \in 1 .. Len(s.line_offset) - 1 : s.line_offset[i] < s.line_offset[i + 1]
    /\ \A i \in 1 .. Len(s.line_offset) : Boundary(s.buffer, s.line_offset[i])

\* The visible columns of visual row r of handle h, the prompt on row 0 included.
RowWidth(h, r) ==
  (IF r = 0 THEN h.prompt_len ELSE 0)
  + Codepoints(h.buffer, h.line_offset[r + 1],
               IF r + 1 < Len(h.line_offset) THEN h.line_offset[r + 2] ELSE Len(h.buffer))

\* C10 (P5): in multiline mode at a fixed window size every visual row but the
\* last is term_cols columns wide and the last row is narrower than term_cols.
C10_RowWidths ==
  (Editing /\ s.multiline) =>
    \A r \in 0 .. Len(s.line_offset) - 1 :
      IF r < Len(s.line_offset) - 1 THEN RowWidth(s, r) = s.term_cols
      ELSE RowWidth(s, r) < s.term_cols

\* C11: after every handled key event in multiline mode pos_y is the row that
\* holds offset (line_offset[pos_y] <= offset < line_offset[pos_y + 1], or the
\* last row) and pos_x is the prompt width on row 0 plus the number of codepoints
\* between the row's start and offset.
C11_CursorConsistent ==
  (Editing /\ s.multiline) =>
    /\ s.pos_y < Len(s.line_offset)
    /\ s.line_offset[s.pos_y + 1] <= s.offset
    /\ s.pos_y + 1 < Len(s.line_offset) => s.offset < s.line_offset[s.pos_y + 2]
    /\ s.pos_x = (IF s.pos_y = 0 THEN s.prompt_len ELSE 0)
                   + Codepoints(s.buffer, s.line_offset[s.pos_y + 1], s.offset)

\* One readiness event that delivers the single character key uc.
CharEvent(uc) ==
  [fd |-> "tkfd", keys |-> <<UnicodeKey({}, uc)>>, eof |-> FALSE, size |-> <<0, 0>>]

\* What C12 promises of the step that overwrites the codepoint at offset with uc.
C12_Replaced(uc) ==
  LET new == U8Uctomb(uc)
      l_old == U8Mbtoucr(s.buffer, s.offset)
      delta == Len(new) - l_old
  IN /\ proc' = "running"
     /\ s'.buffer = SubSeq(s.buffer, 1, s.offset) \o new
                      \o SubSeq(s.buffer, s.offset + l_old + 1, Len(s.buffer))
     /\ Len(s'.buffer) = Len(s.buffer) + delta
     /\ Codepoints(s'.buffer, 0, Len(s'.buffer)) = Codepoints(s.buffer, 0, Len(s.buffer))
     /\ Len(s'.line_offset) = Len(s.line_offset)
     /\ \A i \in 1 .. Len(s.line_offset) :
          i > s.pos_y + 1 => s'.line_offset[i] = s.line_offset[i] + delta

\* C12 (B2): in overwrite mode with offset inside a well-formed buffer a character
\* key replaces exactly the codepoint at offset: same codepoint count, byte length
\* changed by the difference of the encoded lengths, the other codepoints kept,
\* and every line_offset[r] with r > pos_y shifted by that signed difference.
C12_OverwriteReplaces ==
  [][(/\ Editing /\ ~s.insert /\ "tkfd" \in epoll /\ Within(EditCfg, s)
      /\ s.offset < Len(s.buffer)
      /\ WellFormedFrom(s.buffer, 0) /\ Boundary(s.buffer, s.offset)
      /\ s.pos_y < Len(s.line_offset))
     => \A uc \in EditCfg.codepoints : \A r \in handle_one(Cur, CharEvent(uc)) :
          ProcessStep(EditCfg, CharEvent(uc), r) => C12_Replaced(uc)]_vars

\* One readiness event that delivers the single key k.
OneKey(k) == [fd |-> "tkfd", keys |-> <<k>>, eof |-> FALSE, size |-> <<0, 0>>]

\* The state is one the specification's invariants P1..P4 allow.
GoodState ==
  /\ Editing /\ "tkfd" \in epoll /\ Within(EditCfg, s)
  /\ WellFormedFrom(s.buffer, 0) /\ Boundary(s.buffer, s.offset)
  /\ s.nchars = Codepoints(s.buffer, 0, Len(s.buffer))
  /\ s.pos_y < Len(s.line_offset)
  /\ \A i \in 1 .. Len(s.line_offset) : Boundary(s.buffer, s.line_offset[i])

\* n row-clear sequences are part of the output.
RowClears(o) == Cardinality({i \in 1 .. Len(o) : o[i] = Tok("NL_EL")})

\* C13: Ctrl-U with offset > 0 removes exactly buffer[0..offset), keeps the rest,
\* puts the cursor at the logical start (offset = 0, pos_x = prompt_len,
\* pos_y = 0), recomputes line_offset for the whole buffer, and with the cursor
\* at the end leaves an empty buffer, line_offset = [0] and one row-clear for
\* every wrapped row that disappeared.
C13_LineDiscard ==
  [][(GoodState /\ s.offset > 0)
     => \A r \in handle_one(Cur, OneKey(CtrlU)) :
          ProcessStep(EditCfg, OneKey(CtrlU), r)
            => /\ proc' = "running"
               /\ s'.buffer = SubSeq(s.buffer, s.offset + 1, Len(s.buffer))
               /\ s'.offset = 0 /\ s'.pos_x = s.prompt_len /\ s'.pos_y = 0
               /\ s'.line_offset[1] = 0
               /\ s.offset = Len(s.buffer)
                    => /\ s'.buffer = <<>> /\ s'.line_offset = <<0>>
                       /\ RowClears(out') = Len(s.line_offset) - 1]_vars

\* The byte offset of well-formed b that has j codepoints before it.
OffsetOfCodepoint(b, j) ==
  CHOOSE o \in 0 .. Len(b) : Boundary(b, o) /\ Codepoints(b, 0, o) = j

\* The row starts of well-formed b wrapped at cols columns behind a prompt of
\* plen columns: a row that is exactly full is followed by a row start.
WrappedOffsets(b, cols, plen) ==
  LET count == Codepoints(b, 0, Len(b))
      full == {k \in 1 .. count + 1 : (cols - plen) + (k - 1) * cols <= count}
  IN <<0>> \o [k \in 1 .. Cardinality(full)
                 |-> OffsetOfCodepoint(b, (cols - plen) + (k - 1) * cols)]

\* What C14 promises of the state after an insertion.
C14_Wrapped ==
  LET ideal == WrappedOffsets(s'.buffer, s.term_cols, s.prompt_len)
  IN /\ proc' = "running"
     /\ Len(s'.line_offset) >= Len(ideal)
     /\ \A k \in 1 .. Len(ideal) : s'.line_offset[k] = ideal[k]
     /\ \A k \in 2 .. Len(ideal) :
          s'.offset = ideal[k] => (s'.pos_x = 0 /\ s'.pos_y = k - 1)

\* C14 (B1): in multiline insert mode, after an insertion that leaves row r with
\* exactly term_cols visible columns, line_offset[r + 1] is the byte offset just
\* behind the last codepoint of row r, and a cursor that was at the end of that
\* row is at (pos_x, pos_y) = (0, r + 1).
C14_RowFilled ==
  [][(/\ Editing /\ s.multiline /\ s.insert /\ "tkfd" \in epoll /\ Within(EditCfg, s)
      /\ WellFormedFrom(s.buffer, 0) /\ Boundary(s.buffer, s.offset))
     => \A uc \in EditCfg.codepoints : \A r \in handle_one(Cur, CharEvent(uc)) :
          ProcessStep(EditCfg, CharEvent(uc), r) => C14_Wrapped]_vars

\* C15 (R3): typing a string from the empty buffer and pressing Backspace once
\* for each of its codepoints goes through without a failed assertion and leaves
\* the buffer empty with offset = 0 and nchars = 0.
C15_TypeThenErase ==
  /\ script > 0 => proc = "running"
  /\ script = 2 * TypeLen + 1
       => s.buffer = <<>> /\ s.offset = 0 /\ s.nchars = 0

\* The working states after the keys k1 and k2, one event each, from the current
\* state (a failed assertion after k1 ends the sequence).
AfterTwoKeys(k1, k2) ==
  UNION {IF r1.w.proc # "running" THEN {r1.w}
         ELSE {r2.w : r2 \in handle_one(r1.w, OneKey(k2))}
           : r1 \in handle_one(Cur, OneKey(k1))}

\* C16 (R1): in every state of an edit with offset > 0, in both modes,
\* backward-char followed by forward-char restores buffer, offset, pos_x and pos_y.
C16_BackwardForward ==
  (Editing /\ "tkfd" \in epoll /\ s.offset > 0)
    => \A w \in AfterTwoKeys(SymKey({}, "LEFT"), SymKey({}, "RIGHT")) :
         /\ w.proc = "running"
         /\ w.s.buffer = s.buffer /\ w.s.offset = s.offset
         /\ w.s.pos_x = s.pos_x /\ w.s.pos_y = s.pos_y

\* C17 (R2): with the cursor at the end of a buffer that is not empty, Home
\* followed by End restores offset, pos_x and pos_y, whatever the buffer holds.
C17_HomeEnd ==
  (/\ Editing /\ "tkfd" \in epoll /\ Within(EditCfg, s)
   /\ s.buffer # <<>> /\ s.offset = Len(s.buffer))
    => \A w \in AfterTwoKeys(SymKey({}, "HOME"), SymKey({}, "END")) :
         /\ w.proc = "running"
         /\ w.s.offset = s.offset /\ w.s.pos_x = s.pos_x /\ w.s.pos_y = s.pos_y

\* A word begins at offset p of b: the character at p is a letter or a digit and
\* the one before it is not.
WordStart(b, p) ==
  /\ p > 0 /\ p < Len(b) /\ Boundary(b, p)
  /\ IsWord(U8Char(b, p)) /\ ~IsWord(U8Char(b, U8Prev(b, p)))

\* The greatest word start before offset o of b, 0 when there is none.
WordBefore(b, o) ==
  LET c == {p \in 1 .. o - 1 : WordStart(b, p)}
  IN IF c = {} THEN 0 ELSE CHOOSE p \in c : \A q \in c : q <= p

\* Offset p of h's buffer lies in visual row y at column x.
AtRowColumn(h, p, x, y) ==
  /\ y >= 0 /\ y < Len(h.line_offset)
  /\ h.line_offset[y + 1] <= p
  /\ y + 1 < Len(h.line_offset) => p < h.line_offset[y + 2]
  /\ x = (IF y = 0 THEN h.prompt_len ELSE 0) + Codepoints(h.buffer, h.line_offset[y + 1], p)

\* C18 (R4): Alt-B from offset o > 0 moves offset to the greatest word start
\* before o, or to 0 when there is none, and sets pos_y and pos_x to the row and
\* column of that offset.
C18_BackwardWord ==
  (Editing /\ "tkfd" \in epoll /\ s.offset > 0)
    => \A r \in handle_one(Cur, OneKey(AltB)) :
         /\ r.w.proc = "running"
         /\ r.w.s.offset = WordBefore(s.buffer, s.offset)
         /\ AtRowColumn(r.w.s, r.w.s.offset, r.w.s.pos_x, r.w.s.pos_y)
\* The Backspace key.
Backspace == OneKey(SymKey({}, "BACKSPACE"))

\* The cursor of h is behind the only character of a last row that is not the
\* first row.
OnlyCharOfLastRow(h) ==
  /\ h.offset = Len(h.buffer) /\ h.pos_y > 0 /\ h.pos_y + 1 = Len(h.line_offset)
  /\ h.pos_x = 1 /\ Codepoints(h.buffer, h.line_offset[h.pos_y + 1], h.offset) = 1

\* C19 (R5), as the code has it: on 20 columns with a prompt of 2 columns in
\* multiline insert mode, 19 typed characters give line_offset = [0, 18] and the
\* cursor (1, 1), and one Backspace then leaves 18 characters, line_offset =
\* [0, 18] and the cursor (0, 1).  In general a Backspace that empties the last
\* wrapped row keeps the row in line_offset and leaves the cursor at its column 0.
C19_BackspaceKeepsRow ==
  /\ script > 0 => proc = "running"
  /\ script = 20
       => s.line_offset = <<0, 18>> /\ s.pos_x = 1 /\ s.pos_y = 1
  /\ script = 21
       => /\ s.buffer = [i \in 1 .. 18 |-> 97]
          /\ s.line_offset = <<0, 18>> /\ s.pos_x = 0 /\ s.pos_y = 1
  /\ (Editing /\ "tkfd" \in epoll /\ s.multiline /\ OnlyCharOfLastRow(s))
       => \A r \in handle_one(Cur, Backspace) :
            /\ r.w.proc = "running"
            /\ r.w.s.line_offset = s.line_offset
            /\ r.w.s.offset = s.line_offset[s.pos_y + 1]
            /\ Len(r.w.s.buffer) = r.w.s.offset
            /\ r.w.s.pos_x = 0 /\ r.w.s.pos_y = s.pos_y

\* The scenario of C19 ran to its end: 19 characters, then Backspace.
C19_Witness == script = 21 /\ Editing /\ Len(s.buffer) = 18

\* C19 (R5) as the specification states it: the Backspace of the scenario leaves
\* line_offset = [0] and the cursor (19, 0).
C19_BackspaceUnwraps ==
  /\ script > 0 => proc = "running"
  /\ script = 20
       => s.line_offset = <<0, 18>> /\ s.pos_x = 1 /\ s.pos_y = 1
  /\ script = 21
       => /\ s.buffer = [i \in 1 .. 18 |-> 97]
          /\ s.line_offset = <<0>> /\ s.pos_x = 19 /\ s.pos_y = 0
\* The events that end an edit: the Enter key and the decoder's EOF.
CommitEvents == {OneKey(Enter), EofEvent}

\* C20: the two drive modes agree.  prepare() is the first call of both and
\* both hand every event to handle_one; when handle_one says done, what read()
\* then does and what process() then does return the same line, leave the same
\* session state and write the same bytes to the terminal.
C20_DriveModesAgree ==
  (Editing /\ "tkfd" \in epoll)
    => \A ev \in CommitEvents : \A r \in handle_one(Cur, ev) :
         (r.w.proc = "running" /\ r.done)
           => LET byRead == finalize(leave(r.w))
                  byProcess == finalize(r.w)
              IN /\ byRead.proc = byProcess.proc
                 /\ byRead.s = byProcess.s
                 /\ byRead.epoll = byProcess.epoll /\ byRead.sigmask = byProcess.sigmask
                 /\ byRead.out = byProcess.out
\* The key events of several keys.
BatchEvents ==
  {[fd |-> "tkfd", keys |-> b, eof |-> FALSE, size |-> <<0, 0>>]
     : b \in Batches(BatchCfg.batchkeys, MaxBatch)}

\* C21, as the code has it: one process(event) call for the key descriptor, like
\* one turn of the loop of read(), takes every key the decoder can deliver at
\* that time, in order, and stops early only at the key that ends the edit.
C21_DrainsAll ==
  [][("tkfd" \in epoll /\ proc = "running")
       => \A ev \in BatchEvents : \A r \in handle_one(Cur, ev) :
            (EventStep(BatchCfg, ev, r) /\ r.w.proc = "running")
              => /\ r.used = Len(ev.keys) \/ r.done
                 /\ r.done => r.used >= 1 /\ ev.keys[r.used] = Enter
                 /\ script' = r.used]_vars

\* C21 witness: a process() call took two keys and the edit goes on.
C21_Witness == Editing /\ ~reading /\ script = 2

\* C21 as the specification states it: no process() call takes more than one
\* key from the decoder.
C21_ProcessOneKey == (Editing /\ ~reading) => script <= 1
\* C22: a prepare() call in state open changes no field of the session, no
\* registration, not the signal mask, and writes nothing; so the edit goes on
\* as if prepare() had been called once.
C22_PrepareIdempotent ==
  [][\A a \in Answers(MainCfg) :
       (PrepareStep(MainCfg, a) /\ s.term_state = "open")
         => /\ s' = s /\ proc' = proc
            /\ epoll' = epoll /\ sigmask' = sigmask
            /\ nsigfd' = nsigfd /\ nonblock' = nonblock
            /\ out' = <<>>]_vars

\* C22 witness: prepare() came back in the middle of an edit that process()
\* drives, with a buffer that is not empty.
C22_Witness ==
  Editing /\ ~reading /\ s.buffer # <<>> /\ result.kind = "none" /\ out = <<>>
\* C23: SIGWINCH is blocked while an edit is open, and after every commit the
\* process signal mask is the one of before the first prepare(), in which
\* SIGWINCH was not blocked.
C23_MaskRestored ==
  /\ Editing => sigmask
  /\ (proc = "running" /\ s.term_state = "closed") => ~sigmask
\* C24: what prepare() acquired is released when the edit ends.  With the
\* session closed nothing is registered, no signalfd is open, the terminal
\* descriptor is blocking again and the signal mask is the old one; with the
\* session open one signalfd is open, not more.
C24_ScopedAcquisition ==
  /\ (proc = "running" /\ s.term_state = "closed")
       => epoll = {} /\ nsigfd = 0 /\ ~nonblock /\ ~sigmask
  /\ Editing => nsigfd = 1
\* C25: when epoll refuses the key descriptor with EPERM, prepare() fails with
\* the error and leaves the state clean: the session closed, nothing registered,
\* no signalfd open, the signal mask as before, nothing written.
C25_EpermClean ==
  /\ ~s.fd_epoll => proc = "running"
  /\ result.kind = "error"
       => /\ s.term_state = "closed" /\ epoll = {}
          /\ nsigfd = 0 /\ ~sigmask /\ out = <<>>
\* The layout of handle h is right for its term_cols: every row but the last is
\* term_cols wide, the last one narrower, and the cursor is inside the window at
\* the row and column of offset.
LaidOut(h) ==
  /\ \A r \in 0 .. Len(h.line_offset) - 1 :
       IF r + 1 < Len(h.line_offset) THEN RowWidth(h, r) = h.term_cols
       ELSE RowWidth(h, r) < h.term_cols
  /\ h.pos_x < h.term_cols
  /\ AtRowColumn(h, h.offset, h.pos_x, h.pos_y)

\* The SIGWINCH event that reports window size z.
Winch(z) == [fd |-> "sigfd", keys |-> <<>>, eof |-> FALSE, size |-> z]

\* C26 (B5): in multiline mode, after a SIGWINCH event with fewer columns in the
\* middle of an edit term_cols is the new value, and the insertion that follows
\* leaves a layout that is right for the new width.
C26_ResizeNarrower ==
  (Editing /\ s.multiline /\ {"tkfd", "sigfd"} \subseteq epoll /\ Within(MainCfg, s)
     /\ LaidOut(s) /\ s.nchars < MaxLen)
    => \A z \in {y \in MainCfg.resizes : y[1] < s.term_cols} :
         \A r1 \in handle_one(Cur, Winch(z)) :
           /\ r1.w.s.term_cols = z[1]
           /\ \A r2 \in handle_one(r1.w, OneKey(UnicodeKey({}, 97))) :
                r2.w.proc = "running" /\ LaidOut(r2.w.s)
\* The single-line insertion that scrolls is about to happen in the state.
ScrollDue ==
  /\ Editing /\ ~s.multiline /\ "tkfd" \in epoll /\ Within(EditCfg, s)
  /\ s.nchars < MaxLen /\ Len(s.line_offset) >= 1
  /\ s.insert \/ s.offset = Len(s.buffer)
  /\ s.initial_col + s.pos_x > Max(1, NineTenths(s.term_cols))

\* Output o has the redraw of the scrolled line of h: the cursor moved to
\* column 1 of the edit's row, the mark, and at most term_cols - 1 characters of
\* the buffer from line_offset[0] on.
ScrollRedraw(h, o) ==
  \E i \in 1 .. Len(o) - 2 :
    /\ o[i] = move_to_buf(h, 1, 0)
    /\ o[i + 1] = Tok("LAQUO")
    /\ o[i + 2].op = "bytes"
    /\ \E n \in 0 .. Len(h.buffer) - h.line_offset[1] :
         o[i + 2].data = SubSeq(h.buffer, h.line_offset[1] + 1, h.line_offset[1] + n)
    /\ Codepoints(o[i + 2].data, 0, Len(o[i + 2].data)) <= h.term_cols - 1

\* C27 (B3): in single-line mode an insertion with the cursor beyond 90% of
\* term_cols scrolls the view: line_offset[0] advances by at least one character
\* and at most about 10% of term_cols, not past offset, and the line is redrawn
\* on the edit's row from column 1 on.
C27_SingleLineScroll ==
  ScrollDue
    => \A r \in handle_one(Cur, OneKey(UnicodeKey({}, 97))) :
         /\ r.w.proc = "running"
         /\ r.w.s.line_offset[1] > s.line_offset[1]
         /\ r.w.s.line_offset[1] <= r.w.s.offset
         /\ Boundary(r.w.s.buffer, r.w.s.line_offset[1])
         /\ Codepoints(r.w.s.buffer, s.line_offset[1], r.w.s.line_offset[1])
              <= Max(1, OneTenth(s.term_cols))
         /\ ScrollRedraw(r.w.s, r.w.out)
\* A virtual terminal of cols x rows cells: the characters on the screen, the
\* cursor (cx, cy) counted from 1, and pend, the wrap that a character written
\* into the last column defers until the next character arrives.
VtFresh(cols, rows) ==
  [cells |-> [r \in 1 .. rows |-> [c \in 1 .. cols |-> 32]],
   cx |-> 1, cy |-> 1, pend |-> FALSE, cols |-> cols, rows |-> rows]

VtBlankRow(v) == [c \in 1 .. v.cols |-> 32]

\* ESC [ S: the screen moves up by one row.
VtScrollUp(v) ==
  [v EXCEPT !.cells = [r \in 1 .. v.rows |->
                         IF r < v.rows THEN v.cells[r + 1] ELSE VtBlankRow(v)]]

\* Line feed: one row down, scrolling at the bottom.
VtLineFeed(v) ==
  IF v.cy = v.rows THEN [VtScrollUp(v) EXCEPT !.pend = FALSE]
  ELSE [v EXCEPT !.cy = @ + 1, !.pend = FALSE]

\* One character c arrives.
VtPut(v, c) ==
  LET v1 == IF v.pend THEN [VtLineFeed(v) EXCEPT !.cx = 1] ELSE v
  IN [v1 EXCEPT !.cells[v1.cy][v1.cx] = c,
                !.cx = IF v1.cx = v1.cols THEN @ ELSE @ + 1,
                !.pend = (v1.cx = v1.cols)]

RECURSIVE VtPrint(_, _, _)
VtPrint(v, b, o) ==
  IF o >= Len(b) THEN v
  ELSE LET n == U8Mbtoucr(b, o)
       IN VtPrint(VtPut(v, U8Char(b, o)), b, o + (IF n < 1 THEN 1 ELSE n))

\* ESC [ row ; col H, clipped to the screen.
VtCup(v, row, col) ==
  [v EXCEPT !.cy = IF row < 1 THEN 1 ELSE IF row > v.rows THEN v.rows ELSE row,
            !.cx = IF col < 1 THEN 1 ELSE IF col > v.cols THEN v.cols ELSE col,
            !.pend = FALSE]

\* ESC [ K: blanks from the cursor to the end of its row.
VtEl(v) ==
  [v EXCEPT !.cells[v.cy] = [c \in 1 .. v.cols |-> IF c >= v.cx THEN 32 ELSE @[c]]]

\* ESC [ 1 L: a blank row is inserted at the cursor's row.
VtIl(v) ==
  [v EXCEPT !.cells = [r \in 1 .. v.rows |->
                         IF r < v.cy THEN v.cells[r]
                         ELSE IF r = v.cy THEN VtBlankRow(v) ELSE v.cells[r - 1]]]

\* The terminal after one token of output.
VtApply(v, tok) ==
  CASE tok.op = "CUP" -> VtCup(v, tok.row, tok.col)
    [] tok.op = "bytes" -> VtPrint(v, tok.data, 0)
    [] tok.op = "SP" -> VtPut(v, 32)
    [] tok.op = "LAQUO" -> VtPut(v, 171)
    [] tok.op = "EL" -> VtEl(v)
    [] tok.op = "NL" -> VtLineFeed(v)
    [] tok.op = "NL_EL" -> VtEl(VtLineFeed(v))
    [] tok.op = "NL_IL" -> VtIl(VtLineFeed(v))
    [] tok.op = "CR" -> [v EXCEPT !.cx = 1, !.pend = FALSE]
    [] tok.op = "SU_CR_IL" -> VtIl([VtScrollUp(v) EXCEPT !.cx = 1, !.pend = FALSE])
    [] OTHER -> v

RECURSIVE VtRun(_, _, _)
VtRun(v, o, i) == IF i > Len(o) THEN v ELSE VtRun(VtApply(v, o[i]), o, i + 1)

\* The screen of a multiline edit drawn from scratch from handle h: the prompt
\* and the buffer from (initial_row, initial_col) on, wrapped at term_cols, and
\* the cursor at (pos_x, pos_y) of the edit.
Render(h) ==
  LET text == h.prompt \o h.buffer
      v0 == VtCup(VtFresh(h.term_cols, h.term_rows), h.initial_row, h.initial_col)
      v1 == VtPrint(v0, text, 0)
  IN [v1 EXCEPT !.cx = h.initial_col + h.pos_x, !.cy = h.initial_row + h.pos_y,
                !.pend = FALSE]

\* The edit of h is on the screen from its first row on.
OnScreen(h) ==
  /\ h.initial_row >= 1
  /\ h.initial_row + Len(h.line_offset) - 1 <= h.term_rows

\* The keys of one edit other than those that end it.
ScreenKeys == InsertKeys(EditCfg.codepoints) \cup (EditCfg.editkeys \ {Enter})

\* C28 (P6), multiline mode: when the screen shows the edit as drawn from
\* scratch, it does so again after the bytes of the next edit action.  By
\* induction from prepare() the bytes written since prepare() then give the
\* screen and the cursor of a rendering from scratch.
C28_ScreenMatches ==
  (Editing /\ s.multiline /\ "tkfd" \in epoll /\ Within(EditCfg, s)
     /\ s.buffer # <<>> /\ OnScreen(s) /\ LaidOut(s))
    => \A k \in ScreenKeys :
         (Inserts(<<k>>) = 0 \/ s.nchars < MaxLen)
           => \A r \in handle_one(Cur, OneKey(k)) :
                (r.w.proc = "running" /\ r.w.s.buffer # <<>> /\ OnScreen(r.w.s))
                  => LET seen == VtRun(Render(s), r.w.out, 1)
                         drawn == Render(r.w.s)
                     IN seen.cells = drawn.cells
                        /\ seen.cx = drawn.cx /\ seen.cy = drawn.cy
\* A word ends at offset p of b: the character that ends at p is a letter or a
\* digit and the one at p is not.
WordEnd(b, p) ==
  /\ p > 0 /\ p < Len(b) /\ Boundary(b, p)
  /\ IsWord(U8Char(b, U8Prev(b, p))) /\ ~IsWord(U8Char(b, p))

\* The smallest word end behind offset o of b, Len(b) when there is none.
WordAfter(b, o) ==
  LET c == {p \in o + 1 .. Len(b) - 1 : WordEnd(b, p)}
  IN IF c = {} THEN Len(b) ELSE CHOOSE p \in c : \A q \in c : p <= q

\* C29: Alt-F from an offset o < len(buffer) moves offset to the smallest word
\* end behind o, or to len(buffer) when there is none, and sets pos_y and pos_x
\* to the row and column of that offset.
C29_ForwardWord ==
  (Editing /\ "tkfd" \in epoll /\ s.offset < Len(s.buffer))
    => \A r \in handle_one(Cur, OneKey(AltF)) :
         /\ r.w.proc = "running"
         /\ r.w.s.offset = WordAfter(s.buffer, s.offset)
         /\ AtRowColumn(r.w.s, r.w.s.offset, r.w.s.pos_x, r.w.s.pos_y)

\* The two keys key_map binds to cb_end_of_line.
EndKeys == {SymKey({}, "END"), UnicodeKey({"CTRL"}, Chr("e"))}

\* C30: End or Ctrl-E from a cursor with offset # len(buffer) puts the cursor on
\* the last row, in the column (prompt_len on row 0, else 0) + the number of
\* codepoints on that row, sets offset to len(buffer) and requested_pos_x to
\* pos_x, whatever the encoding lengths of the codepoints in the buffer.
C30_EndOfLine ==
  (Editing /\ "tkfd" \in epoll /\ s.offset # Len(s.buffer) /\ LaidOut(s))
    => \A k \in EndKeys : \A r \in handle_one(Cur, OneKey(k)) :
         LET y == Len(s.line_offset) - 1
         IN /\ r.w.proc = "running"
            /\ r.w.s.pos_y = y
            /\ r.w.s.pos_x = (IF y = 0 THEN s.prompt_len ELSE 0)
                               + Codepoints(s.buffer, s.line_offset[y + 1], Len(s.buffer))
            /\ r.w.s.offset = Len(s.buffer)
            /\ r.w.s.requested_pos_x = r.w.s.pos_x

\* The smaller of two numbers.
Least(a, b) == IF a <= b THEN a ELSE b

\* What C31 promises of handle g, the outcome of a vertical motion of handle h
\* whose target is row y: either y does not exist (or the motion is refused) and
\* nothing changes, or the cursor is in row y at the sticky column, cut to the
\* width of that row, and offset is the byte offset of that column.
StickyMove(h, g, y, legal) ==
  IF legal
    THEN /\ g.pos_y = y
         /\ g.pos_x = Least(h.requested_pos_x, RowWidth(h, y))
         /\ g.offset >= h.line_offset[y + 1] /\ Boundary(h.buffer, g.offset)
         /\ g.pos_x = (IF y = 0 THEN h.prompt_len ELSE 0)
                        + Codepoints(h.buffer, h.line_offset[y + 1], g.offset)
         /\ g.requested_pos_x = h.requested_pos_x
         /\ g.buffer = h.buffer /\ g.line_offset = h.line_offset
    ELSE g = h

\* C31: Up and Down move the cursor by exactly one row when the target row
\* exists (Up from row 1 is refused when requested_pos_x < prompt_len) and change
\* nothing otherwise; the new column is min(requested_pos_x, width of the target
\* row), offset is the byte offset of that column, and requested_pos_x is left
\* as it was.
C31_StickyColumn ==
  (Editing /\ "tkfd" \in epoll /\ LaidOut(s))
    => /\ \A r \in handle_one(Cur, OneKey(SymKey({}, "UP"))) :
            /\ r.w.proc = "running"
            /\ StickyMove(s, r.w.s, s.pos_y - 1,
                          s.pos_y > 0 /\ (s.pos_y > 1 \/ s.requested_pos_x >= s.prompt_len))
       /\ \A r \in handle_one(Cur, OneKey(SymKey({}, "DOWN"))) :
            /\ r.w.proc = "running"
            /\ StickyMove(s, r.w.s, s.pos_y + 1, s.pos_y + 1 < Len(s.line_offset))

\* C32: Ctrl-K with offset < len(buffer) cuts the buffer to buffer[0..offset),
\* leaves offset, pos_x, pos_y, insert mode and line_offset[0..pos_y] as they
\* were, leaves line_offset with exactly pos_y + 1 entries and emits one
\* row-clear sequence per row that disappeared.
C32_KillLine ==
  (Editing /\ "tkfd" \in epoll /\ s.offset < Len(s.buffer))
    => \A r \in handle_one(Cur, OneKey(CtrlK)) :
         /\ r.w.proc = "running"
         /\ r.w.s.buffer = SubSeq(s.buffer, 1, s.offset)
         /\ r.w.s.offset = s.offset
         /\ r.w.s.pos_x = s.pos_x /\ r.w.s.pos_y = s.pos_y
         /\ r.w.s.insert = s.insert
         /\ Len(r.w.s.line_offset) = s.pos_y + 1
         /\ Len(s.line_offset) >= s.pos_y + 1
         /\ r.w.s.line_offset = SubSeq(s.line_offset, 1, s.pos_y + 1)
         /\ RowClears(r.w.out) = Len(s.line_offset) - (s.pos_y + 1)

\* C33: max_lines is the high-water mark of len(line_offset) of the active
\* edit: it is never below len(line_offset), a handled key leaves it at the
\* larger of its old value and the new row count, and the prepare() that opens
\* an edit leaves it at 1, also when an earlier edit of the session had wrapped.
C33_MaxLines ==
  /\ [](Editing => s.max_lines >= Len(s.line_offset))
  /\ []((Editing /\ "tkfd" \in epoll)
          => \A k \in MainCfg.editkeys \cup InsertKeys(MainCfg.codepoints) :
               \A r \in handle_one(Cur, OneKey(k)) :
                 (r.w.proc = "running" /\ ~r.done)
                   => r.w.s.max_lines = Max(s.max_lines, Len(r.w.s.line_offset)))
  /\ [][(s.term_state = "closed" /\ s'.term_state = "open") => s'.max_lines = 1]_vars

\* The output o renders the dimmed hint.
ShowsHint(o) == \E i \in 1 .. Len(o) : o[i] = Tok("hint")

\* The keys of the edit actions that can empty a buffer.
EmptyingKeys == {SymKey({}, "BACKSPACE"), SymKey({}, "DELETE"), CtrlU, CtrlK}

\* C34: with empty_message set the hint is on screen exactly while the buffer
\* of an open edit is empty: the prepare() that opens the edit renders it, the
\* first insertion emits clear-to-EOL before the inserted bytes and leaves one
\* character (offset = its length, nchars = 1, pos_x = prompt_len + 1 when that
\* is inside the window), and Backspace, Delete, Ctrl-U and Ctrl-K render the
\* hint again when they turn a buffer that was not empty into an empty one.
C34_EmptyHint ==
  /\ [][(s.term_state = "closed" /\ s'.term_state = "open" /\ s'.empty_message)
          => ShowsHint(out')]_vars
  /\ []((Editing /\ "tkfd" \in epoll /\ s.empty_message /\ s.buffer = <<>>)
          => \A uc \in EditCfg.codepoints :
               \A r \in handle_one(Cur, OneKey(UnicodeKey({}, uc))) :
                 /\ r.w.proc = "running"
                 /\ r.w.out # <<>> /\ r.w.out[1] = Tok("EL")
                 /\ \E j \in 2 .. Len(r.w.out) : r.w.out[j] = Bytes(U8Uctomb(uc))
                 /\ r.w.s.buffer = U8Uctomb(uc)
                 /\ r.w.s.offset = Len(U8Uctomb(uc)) /\ r.w.s.nchars = 1
                 /\ s.prompt_len + 1 < s.term_cols => r.w.s.pos_x = s.prompt_len + 1)
  /\ []((Editing /\ "tkfd" \in epoll /\ s.empty_message /\ s.buffer # <<>>)
          => \A k \in EmptyingKeys : \A r \in handle_one(Cur, OneKey(k)) :
               (r.w.proc = "running" /\ r.w.s.buffer = <<>>) => ShowsHint(r.w.out))

\* C35: at a fixed window size, after prepare() and after every handled key
\* event the cursor is on a row that exists and inside the window, in multiline
\* and in single-line mode alike: pos_y < len(line_offset), pos_x < term_cols,
\* and in single-line mode the cursor stays on row 0.
C35_CursorInWindow ==
  Editing => /\ s.pos_y < Len(s.line_offset)
             /\ s.pos_x < s.term_cols
             /\ ~s.multiline => s.pos_y = 0

\* Keys without an entry in key_map that neither insert nor, on a buffer that
\* is not empty, cancel: an unbound letter with ALT, with CTRL and with both,
\* bound letters in upper case or with one modifier too many, and bound
\* symbolic keys with a modifier.
CtrlLeft == SymKey({"CTRL"}, "LEFT")
AltX == UnicodeKey({"ALT"}, Chr("x"))
UnboundKeys ==
  {CtrlD, CtrlLeft, AltX, UnicodeKey({"CTRL"}, Chr("x")), UnicodeKey({"ALT", "CTRL"}, Chr("x")),
   UnicodeKey({"CTRL"}, Chr("D")), UnicodeKey({"ALT"}, Chr("u")),
   UnicodeKey({"CTRL", "SHIFT"}, Chr("u")), UnicodeKey({"ALT", "CTRL"}, Chr("b")),
   SymKey({"SHIFT"}, "LEFT"), SymKey({"ALT"}, "BACKSPACE"), SymKey({"CTRL"}, "ENTER"),
   SymKey({"SHIFT"}, "HOME"), SymKey({"CTRL"}, "DELETE"), SymKey({}, "TAB")}

\* An edit in which the user types a and then three keys without a binding.
IgnoreKeys == <<UnicodeKey({}, Chr("a")), CtrlD, CtrlLeft, AltX>>

IgnoreCfg ==
  [EditCfg EXCEPT !.codepoints = {Chr("a")},
                  !.editkeys = {Enter, SymKey({}, "LEFT"), SymKey({}, "BACKSPACE"),
                                CtrlD, CtrlLeft, AltX},
                  !.scenario = IgnoreKeys]

InitIgnore == InitOf(IgnoreCfg)
NextIgnore == Prepare(IgnoreCfg) \/ Process(IgnoreCfg)
SpecIgnore == InitIgnore /\ [][NextIgnore]_vars

\* C36: a key event that does not insert, does not cancel and has no entry in
\* the dispatch table for its exact (is_symbolic, modifiers, code) is ignored:
\* the call does not commit, writes nothing and leaves every field of the
\* handle as it was.
C36_UnboundIgnored ==
  (Editing /\ "tkfd" \in epoll /\ s.buffer # <<>>)
    => \A k \in UnboundKeys : \A r \in handle_one(Cur, OneKey(k)) :
         /\ ~r.done
         /\ r.w = Cur

\* C36 witness: a was typed, then Ctrl-D, Ctrl-Left and Alt-x, and the edit is
\* as it was after the a.
C36_Witness ==
  /\ Editing /\ script = 5
  /\ s.buffer = <<97>> /\ s.offset = 1 /\ result = Unexpected(TRUE) /\ out = <<>>

\* Handles g and h agree in the fields C37 names.
SameEdit(g, h) ==
  /\ g.buffer = h.buffer /\ g.offset = h.offset /\ g.nchars = h.nchars
  /\ g.line_offset = h.line_offset /\ g.pos_x = h.pos_x /\ g.pos_y = h.pos_y

\* C37: in multiline insert mode at a fixed window size, inserting one
\* codepoint at the cursor and then pressing Backspace restores buffer, offset,
\* nchars, line_offset, pos_x and pos_y, also when the insertion wrapped the
\* cursor to a new row or created a row.
C37_InsertBackspace ==
  (Editing /\ "tkfd" \in epoll /\ s.multiline /\ s.insert)
    => \A uc \in EditCfg.codepoints :
         \A r1 \in handle_one(Cur, OneKey(UnicodeKey({}, uc))) :
           /\ r1.w.proc = "running"
           /\ \A r2 \in handle_one(r1.w, Backspace) :
                r2.w.proc = "running" /\ SameEdit(r2.w.s, s)

\* An edit in a window of 2 columns and 2 rows that wraps over more rows than
\* the window has: with the prompt ">" the third character begins row 2.
ScrollLen == 4

ScrollCfg ==
  [EditCfg EXCEPT !.codepoints = {Chr("a")}, !.maxlen = ScrollLen,
                  !.sizes = {<<2, 2>>}, !.multiline = {TRUE},
                  !.editkeys = {Enter, SymKey({}, "LEFT"), SymKey({}, "BACKSPACE")}]

InitScroll == InitOf(ScrollCfg)
NextScroll == Prepare(ScrollCfg) \/ Process(ScrollCfg)
SpecScroll == InitScroll /\ [][NextScroll]_vars

\* The edit area of handle h lies on the terminal.
OnTerminal(h) ==
  /\ h.initial_row >= 1
  /\ h.initial_row + Len(h.line_offset) - 1 + h.cur_frame_lines <= h.term_rows

\* C38: after every insertion in multiline mode the edit area stays on the
\* terminal: initial_row >= 1 and initial_row + len(line_offset) - 1 +
\* cur_frame_lines <= term_rows, however many rows the input wraps over.
C38_EditAreaOnTerminal ==
  (Editing /\ "tkfd" \in epoll /\ s.multiline)
    => \A r \in handle_one(Cur, OneKey(UnicodeKey({}, Chr("a")))) :
         r.w.proc = "running" /\ OnTerminal(r.w.s)

\* An edit in a window of 4 columns that the user narrows to 2 columns and
\* widens again while typing.
WinchLen == 3

WinchCfg ==
  [EditCfg EXCEPT !.codepoints = {Chr("a")}, !.maxlen = WinchLen,
                  !.sizes = {<<4, 2>>}, !.resizes = {<<2, 2>>, <<4, 2>>},
                  !.multiline = {TRUE},
                  !.editkeys = {Enter, SymKey({}, "LEFT"), SymKey({}, "BACKSPACE")}]

InitWinch == InitOf(WinchCfg)
NextWinch == Prepare(WinchCfg) \/ Process(WinchCfg)
SpecWinch == InitWinch /\ [][NextWinch]_vars

\* The row count the multiline insertion of codepoint uc at the cursor of
\* handle h computes, 0 when the walk over the buffer fails before.
RowsAfterInsert(h, uc) ==
  LET b == Insert(h.buffer, h.offset, U8Uctomb(uc))
      r == recompute_line_offset([h EXCEPT !.buffer = b], h.pos_y)
  IN IF r.ok THEN Len(r.lo) ELSE 0

\* C39: whatever key and SIGWINCH events came before, an insertion in multiline
\* mode that takes the row count above max_lines takes it to max_lines + 1: the
\* assertion of the insertion path holds.
C39_OneRowAtATime ==
  (Editing /\ "tkfd" \in epoll /\ s.multiline /\ s.offset <= Len(s.buffer)
     /\ (s.insert \/ s.offset = Len(s.buffer)))
    => (RowsAfterInsert(s, Chr("a")) > s.max_lines
          => RowsAfterInsert(s, Chr("a")) = s.max_lines + 1)
====
